---- MODULE Spec2Model ----
(***************************************************************************)
(* Model of the chat pipeline of kawin357/int1: the turn orchestration of  *)
(* the Index page (handleSendMessage / handleStopResponse), the stream     *)
(* read loop embedded in it, the provider fallback chain of                *)
(* sendToNvidiaAPI, the segment parser of utils/codeParser.ts, the input   *)
(* validator and output filter of utils/security.ts, the response          *)
(* post-processing of services/chatService.ts, and the message sanitizer   *)
(* and rate limiter of utils/inputSanitizer.ts.                            *)
(*                                                                         *)
(* Text is modelled as a sequence of one-character strings; a few          *)
(* multi-character atoms stand for fixed byte runs of the wire format.     *)
(***************************************************************************)
EXTENDS Integers, Sequences, FiniteSets, TLC

\* ------------------------------------------------------------------ bounds
\* Turns a behaviour of Spec may start.
MaxTurns == 2
\* Server-sent-event frames on the wire of a stream in SpecStream.
MaxFrames == 3
\* Deltas rendered into one message by SpecParse.
MaxDeltas == 4
\* Pieces the user's message is typed from in SpecGuard.
MaxPieces == 3
\* Pieces a complete response is made of in SpecReply.
MaxParts == 2
\* Pieces a code snippet, and lines an unfenced text, is made of in SpecDetect.
MaxSnippets == 2
\* Pieces a chat message is made of, and calls of containsXSS, in SpecSanitize.
MaxMessageParts == 4
MaxCalls == 3
\* The limit and the window checkRateLimit is called with, and the last clock
\* reading, in SpecRate.
maxAttempts == 2
windowMs == 2
MaxNow == 6
\* Allowed calls followed within one window of windowMs.
MaxAllowed == 4

Turn == 1..MaxTurns

\* ------------------------------------------------------- generic sequences
RECURSIVE Flatten(_)
Flatten(ss) == IF ss = <<>> THEN <<>> ELSE Head(ss) \o Flatten(Tail(ss))

IsPrefix(p, s) == Len(p) <= Len(s) /\ SubSeq(s, 1, Len(p)) = p

\* String.prototype.slice(from) / slice(from, to) with 0-based offsets.
Slice(s, from, to) == SubSeq(s, from + 1, to)
SliceFrom(s, from) == SubSeq(s, from + 1, Len(s))

\* ------------------------------------------------------------ wire format
NL == "\n"
\* 'data: ', the event marker tested by line.startsWith('data: ').
DataPrefix == "data: "
\* '[DONE]', the end marker payload.
DoneMarker == "[DONE]"
\* The JSON text around a delta's content:
\*   {"choices":[{"delta":{"content":"   ...   "}}]}
JsonOpen == "{\"choices\":[{\"delta\":{\"content\":\""
JsonClose == "\"}}]}"
\* A JSON document without choices, and a payload that is no JSON document.
JsonNoChoices == "{}"
JsonBroken == "{\"choices\":[{\"del"
\* The two bytes of the UTF-8 encoding of a two-byte character, and the
\* character they decode to.
ByteLead == "0xC3"
ByteCont == "0xA9"
CharTwoByte == "e'"
ContentChars == {"a", CharTwoByte}
\* The characters the content of a delta is made of.
TextChars == ContentChars \cup {"g", "p", "t"}

Encode(c) == IF c = CharTwoByte THEN <<ByteLead, ByteCont>> ELSE <<c>>

\* The frames a provider may send, as byte runs.
DeltaFrame(c) == <<DataPrefix, JsonOpen>> \o Encode(c) \o <<JsonClose, NL>>
EmptyDeltaFrame == <<DataPrefix, JsonNoChoices, NL>>
BrokenFrame == <<DataPrefix, JsonBroken, NL>>
DoneFrame == <<DataPrefix, DoneMarker, NL>>
BlankFrame == <<NL>>
\* A delta in which the model names a backend.
NamingFrame == <<DataPrefix, JsonOpen, "g", "p", "t", JsonClose, NL>>
Frames == {DeltaFrame(c) : c \in ContentChars}
            \cup {EmptyDeltaFrame, BrokenFrame, DoneFrame, BlankFrame}

RECURSIVE SeqsUpTo(_, _)
SeqsUpTo(S, n) ==
    IF n = 0 THEN {<<>>}
    ELSE LET shorter == SeqsUpTo(S, n - 1)
         IN  shorter \cup {Append(s, x) : s \in {q \in shorter : Len(q) = n - 1}, x \in S}

\* The byte streams of SpecStream: every sequence of at most MaxFrames frames.
Wires == {Flatten(fs) : fs \in SeqsUpTo(Frames, MaxFrames)}
\* The byte streams of Spec: a single frame each.
TurnWires == Frames \cup {NamingFrame}

\* --------------------------------------------------------- canned responses
\* generateSmartResponse: the static apology of the exhausted provider chain.
ApologyText == <<"apology">>
\* getInjectionBlockedResponse: the canned refusal of a blocked message.
RefusalText == <<"refusal">>
\* A predefined response of generateAIResponse (greeting, capabilities, ...).
LocalText == <<"local">>

VARIABLES
    user,               \* Index: user (signed in or not)
    isLoading,          \* Index: isLoading
    abortController,    \* Index: abortController (a turn, or NoController)
    turns,              \* number of turns handleSendMessage has started
    pc,                 \* per turn: where its handleSendMessage is suspended
    aborted,            \* per turn: controller.signal.aborted
    aiMessage,          \* per turn: the AI message in messages, if any
    wire,               \* per turn: bytes of the response body not yet read
    decoderPending,     \* per turn: TextDecoder's incomplete trailing bytes
    accumulatedContent, \* per turn: accumulatedContent of the read loop
    readerLock,         \* per turn: none / held / released
    releases,           \* per turn: number of reader.releaseLock() calls
    messageText,        \* UnifiedMessageRenderer: content of the mounted message
    renders,            \* the renders so far: content and its ParsedMessage
    updates,            \* history: contents pushed to the consumer, in order
    expected,           \* history: concatenation of the valid deltas sent
    sawBroken,          \* history: a data line with invalid JSON was read
    healed,             \* history: a delta was appended after such a line
    doneSeen,           \* history: a data: [DONE] line was processed
    lateDelta,          \* history: a delta was appended after [DONE]
    stopSeen,           \* history: handleStopResponse ran during the read loop
    lastUserMessage,    \* sendToNvidiaAPI: content of the last message
    validation,         \* sendToNvidiaAPI: the verdict of validateMessage
    response,           \* sendToNvidiaAPI: what it returned
    handlerCalls,       \* history: the provider handlers called, in order
    aiResponse,         \* generateAIResponse: a complete string response
    passes,             \* its post-processing passes, stage by stage
    filtered,           \* filterSensitiveResponse applied to it
    bodyDeltas,         \* history, per turn: the deltas of the complete body
    lastMessage,        \* generateAIResponse: lastMessage.content, the user's text
    snippet,            \* detectLanguage: its argument code
    languageTag,        \* detectLanguage: its result
    inlineText,         \* detectInlineCode: its argument
    codeBlocks,         \* detectInlineCode: its result
    message,            \* sanitizeChatMessage: its argument
    sanitizedMessage,   \* sanitizeChatMessage: its result
    patternIndex,       \* XSS_PATTERNS: lastIndex of each pattern object
    xssCalls,           \* history: the containsXSS calls, argument and result
    stored,             \* localStorage: the record under the rate-limit key
    now,                \* Date.now()
    allowed,            \* history: calls allowed in the running window
    lastCheck           \* history: the last checkRateLimit call

vars == <<user, isLoading, abortController, turns, pc, aborted, aiMessage,
          wire, decoderPending, accumulatedContent, readerLock, releases,
          updates, expected, sawBroken, healed, doneSeen, lateDelta,
          stopSeen, messageText, renders, lastUserMessage, validation,
          response, handlerCalls, aiResponse, passes, filtered,
          bodyDeltas, lastMessage, snippet, languageTag, inlineText, codeBlocks,
          message, sanitizedMessage, patternIndex, xssCalls, stored, now,
          allowed, lastCheck>>

NoController == 0
NoMessage == [present |-> FALSE, content |-> <<>>]
NoValidation == [isValid |-> TRUE, sanitized |-> <<>>, reason |-> "", injectionType |-> ""]
NoResponse == [type |-> "none", text |-> <<>>]
NotFiltered == [done |-> FALSE, text |-> <<>>]
NoLanguageYet == <<>>
NotDetectedYet == [done |-> FALSE, blocks |-> <<>>]
NotSanitized == [done |-> FALSE, text |-> <<>>]
NoRecord == [present |-> FALSE, count |-> 0, firstAttempt |-> 0]
NoCheck == [result |-> TRUE, before |-> NoRecord, after |-> NoRecord]
NoneAllowed == [open |-> FALSE, start |-> 0, sinceStart |-> 0, sinceRecord |-> 0]

\* ------------------------------------------------------ stream read loop
Replacement == "U+FFFD"

\* TextDecoder.decode(value, {stream: true}) applied to the pending bytes
\* followed by the new ones: the decoded text, and the incomplete trailing
\* sequence carried over to the next call.
RECURSIVE Decode(_)
Decode(bytes) ==
    IF bytes = <<>> THEN [text |-> <<>>, pending |-> <<>>]
    ELSE IF Head(bytes) = ByteLead
    THEN IF Len(bytes) = 1 THEN [text |-> <<>>, pending |-> <<ByteLead>>]
         ELSE IF bytes[2] = ByteCont
              THEN LET r == Decode(SubSeq(bytes, 3, Len(bytes)))
                   IN  [r EXCEPT !.text = <<CharTwoByte>> \o @]
              ELSE LET r == Decode(Tail(bytes))
                   IN  [r EXCEPT !.text = <<Replacement>> \o @]
    ELSE IF Head(bytes) = ByteCont
    THEN LET r == Decode(Tail(bytes)) IN [r EXCEPT !.text = <<Replacement>> \o @]
    ELSE LET r == Decode(Tail(bytes)) IN [r EXCEPT !.text = <<Head(bytes)>> \o @]

\* String.prototype.split(sep) for a one-character separator: n separators
\* give n + 1 pieces, empty ones included.
RECURSIVE SplitOn(_, _)
SplitOn(s, sep) ==
    IF \A i \in 1..Len(s) : s[i] # sep THEN <<s>>
    ELSE LET k == CHOOSE i \in 1..Len(s) : s[i] = sep /\ \A j \in 1..(i - 1) : s[j] # sep
         IN  <<SubSeq(s, 1, k - 1)>> \o SplitOn(SubSeq(s, k + 1, Len(s)), sep)

\* line.startsWith('data: ')
StartsWithData(line) == Len(line) >= 1 /\ line[1] = DataPrefix

\* JSON.parse(data) followed by parsed.choices?.[0]?.delta?.content || '':
\* ok is FALSE where JSON.parse throws.
JSONparse(data) ==
    IF data = <<JsonNoChoices>> THEN [ok |-> TRUE, content |-> <<>>]
    ELSE IF /\ Len(data) >= 2
            /\ data[1] = JsonOpen
            /\ data[Len(data)] = JsonClose
            /\ \A i \in 2..(Len(data) - 1) : data[i] \in TextChars \cup {Replacement}
    THEN [ok |-> TRUE, content |-> SubSeq(data, 2, Len(data) - 1)]
    ELSE [ok |-> FALSE, content |-> <<>>]

\* accumulatedContent += content
AccumulateOverwrite(acc, content) == content
Accumulate(acc, content) == acc \o content

\* The body of `for (const line of lines)` on the loop state st: acc is
\* accumulatedContent, pushed the contents handed to setMessages; done,
\* late, broken and healed record what the loop went through.
ProcessLineAbortOnBroken(st, line) ==
    IF st.broken \/ ~StartsWithData(line) THEN st
    ELSE LET data == SliceFrom(line, 1)
             parsed == JSONparse(data)
         IN  IF data = <<DoneMarker>> THEN [st EXCEPT !.done = TRUE]
             ELSE IF ~parsed.ok THEN [st EXCEPT !.broken = TRUE]
             ELSE IF parsed.content = <<>> THEN st
             ELSE [st EXCEPT !.acc = Accumulate(st.acc, parsed.content),
                             !.pushed = Append(@, Accumulate(st.acc, parsed.content)),
                             !.late = @ \/ st.done,
                             !.healed = @ \/ st.broken]
ProcessLine(st, line) ==
    IF ~StartsWithData(line) THEN st
    ELSE LET data == SliceFrom(line, 1)
             parsed == JSONparse(data)
         IN  IF data = <<DoneMarker>> THEN [st EXCEPT !.done = TRUE]
             ELSE IF ~parsed.ok THEN [st EXCEPT !.broken = TRUE]
             ELSE IF parsed.content = <<>> THEN st
             ELSE [st EXCEPT !.acc = Accumulate(st.acc, parsed.content),
                             !.pushed = Append(@, Accumulate(st.acc, parsed.content)),
                             !.late = @ \/ st.done,
                             !.healed = @ \/ st.broken]

RECURSIVE ProcessLines(_, _)
ProcessLines(st, lines) ==
    IF lines = <<>> THEN st
    ELSE ProcessLines(ProcessLine(st, Head(lines)), Tail(lines))

\* The text a run of lines carries: the contents of its data lines that hold
\* a JSON delta, concatenated in order.
LineDelta(line) ==
    IF StartsWithData(line) /\ SliceFrom(line, 1) # <<DoneMarker>>
       /\ JSONparse(SliceFrom(line, 1)).ok
    THEN JSONparse(SliceFrom(line, 1)).content
    ELSE <<>>
ValidDeltas(lines) == Flatten([i \in 1..Len(lines) |-> LineDelta(lines[i])])

\* One pass of the while loop after reader.read() returned the bytes value:
\* decode, split into lines, run the for loop.
LoopState(t) ==
    [acc |-> accumulatedContent[t], pushed |-> updates[t], done |-> doneSeen[t],
     late |-> lateDelta[t], broken |-> sawBroken[t], healed |-> healed[t]]

ProcessChunk(t, value) ==
    LET decoded == Decode(decoderPending[t] \o value)
    IN  [st |-> ProcessLines(LoopState(t), SplitOn(decoded.text, NL)),
         lines |-> SplitOn(decoded.text, NL),
         pending |-> decoded.pending]

\* ----------------------------------------------------------------- state
Init ==
    /\ user = FALSE
    /\ isLoading = FALSE
    /\ abortController = NoController
    /\ turns = 0
    /\ pc = [t \in Turn |-> "idle"]
    /\ aborted = [t \in Turn |-> FALSE]
    /\ aiMessage = [t \in Turn |-> NoMessage]
    /\ wire = [t \in Turn |-> <<>>]
    /\ decoderPending = [t \in Turn |-> <<>>]
    /\ accumulatedContent = [t \in Turn |-> <<>>]
    /\ readerLock = [t \in Turn |-> "none"]
    /\ releases = [t \in Turn |-> 0]
    /\ updates = [t \in Turn |-> <<>>]
    /\ expected = [t \in Turn |-> <<>>]
    /\ sawBroken = [t \in Turn |-> FALSE]
    /\ healed = [t \in Turn |-> FALSE]
    /\ doneSeen = [t \in Turn |-> FALSE]
    /\ lateDelta = [t \in Turn |-> FALSE]
    /\ stopSeen = [t \in Turn |-> FALSE]
    /\ messageText = <<>>
    /\ renders = <<>>
    /\ lastUserMessage = <<>>
    /\ validation = NoValidation
    /\ response = NoResponse
    /\ handlerCalls = <<>>
    /\ aiResponse = <<>>
    /\ passes = <<>>
    /\ filtered = NotFiltered
    /\ bodyDeltas = [t \in Turn |-> <<>>]
    /\ lastMessage = <<>>
    /\ snippet = <<>>
    /\ languageTag = NoLanguageYet
    /\ inlineText = <<>>
    /\ codeBlocks = NotDetectedYet
    /\ message = <<>>
    /\ sanitizedMessage = NotSanitized
    /\ patternIndex = [k \in 1..6 |-> 0]
    /\ xssCalls = <<>>
    /\ stored = NoRecord
    /\ now = 0
    /\ allowed = NoneAllowed
    /\ lastCheck = NoCheck

rendererVars == <<messageText, renders>>
guardVars == <<lastUserMessage, validation, response, handlerCalls, lastMessage>>
replyVars == <<aiResponse, passes, filtered>>
detectVars == <<snippet, languageTag, inlineText, codeBlocks>>
sanitizerVars == <<message, sanitizedMessage, patternIndex, xssCalls>>
rateVars == <<stored, now, allowed, lastCheck>>
utilVars == <<detectVars, sanitizerVars, rateVars>>
textVars == <<guardVars, replyVars, utilVars>>
streamVars == <<wire, decoderPending, accumulatedContent, readerLock, releases,
                expected, sawBroken, healed, doneSeen, lateDelta, bodyDeltas>>

\* onAuthStateChanged: the user signs in or out.
AuthStateChanged(u) ==
    /\ user # u
    /\ user' = u
    /\ UNCHANGED <<isLoading, abortController, turns, pc, aborted, aiMessage,
                   updates, stopSeen, streamVars>>

\* The finally block of handleSendMessage, reached by turn t: setIsLoading(false),
\* setAbortController(null).
Finally(t) ==
    /\ pc' = [pc EXCEPT ![t] = "done"]
    /\ isLoading' = FALSE
    /\ abortController' = NoController

\* handleSendMessage from `if (!aiResponse)` on, for a string response: the AI
\* message is appended empty, set to the string, and the turn ends.
ShowString(t, text) ==
    /\ aiMessage' = [aiMessage EXCEPT ![t] = [present |-> TRUE, content |-> text]]
    /\ updates' = [updates EXCEPT ![t] = <<(<<>>), text>>]
    /\ Finally(t)

\* The deltas of the data lines of a complete body, in order.
AllDeltas(bytes) == ValidDeltas(SplitOn(Decode(bytes).text, NL))

\* The same for a stream: the AI message is appended empty, the reader is
\* taken, and the turn suspends in the first reader.read().
StartReading(t, body) ==
    /\ aiMessage' = [aiMessage EXCEPT ![t] = [present |-> TRUE, content |-> <<>>]]
    /\ updates' = [updates EXCEPT ![t] = <<(<<>>)>>]
    /\ wire' = [wire EXCEPT ![t] = body]
    /\ bodyDeltas' = [bodyDeltas EXCEPT ![t] = AllDeltas(body)]
    /\ readerLock' = [readerLock EXCEPT ![t] = "held"]
    /\ pc' = [pc EXCEPT ![t] = "reading"]
    /\ UNCHANGED <<isLoading, abortController>>

\* sendToNvidiaAPI after both handlers returned null: generateSmartResponse.
ProvidersExhausted(t) == ShowString(t, ApologyText)

\* handleSendMessage up to its first suspension. via is where the call comes
\* from: the input form (present only while isLoading is false) or
\* handleSaveEdit (always present). simple is isSimpleQuery; route is the way
\* generateAIResponse takes for the text: a predefined string, a message
\* validateMessage rejects, an informational query (web scrape first), or
\* any other text (straight to the providers).
HandleSendMessage(t, via, simple, route) ==
    /\ user
    /\ t = turns + 1
    /\ via = "form" => ~isLoading
    /\ turns' = t
    /\ IF route \in {"local", "blocked"}
       THEN /\ ShowString(t, IF route = "local" THEN LocalText ELSE RefusalText)
            /\ UNCHANGED <<user, aborted, stopSeen, streamVars>>
       ELSE /\ pc' = [pc EXCEPT ![t] = IF route = "info" THEN "scraping" ELSE "groq"]
            /\ isLoading' = (IF simple THEN isLoading ELSE TRUE)
            /\ abortController' = t
            /\ UNCHANGED <<user, aborted, aiMessage, updates, stopSeen, streamVars>>

\* scrapeContextFromWeb returns (its fetches take no signal); sendToNvidiaAPI
\* calls callGroqStreaming, which returns null at once on an aborted signal,
\* as callDeepSeekStreaming then does.
ScrapeReturns(t) ==
    /\ pc[t] = "scraping"
    /\ IF aborted[t]
       THEN ProvidersExhausted(t)
       ELSE /\ pc' = [pc EXCEPT ![t] = "groq"]
            /\ UNCHANGED <<isLoading, abortController, aiMessage, updates>>
    /\ UNCHANGED <<user, turns, aborted, stopSeen, streamVars>>

\* callGroqStreaming: the fetch resolves with an OK response and a body.
GroqResponds(t, body) ==
    /\ pc[t] = "groq"
    /\ ~aborted[t]
    /\ StartReading(t, body)
    /\ UNCHANGED <<user, turns, aborted, stopSeen, decoderPending,
                   accumulatedContent, releases, expected, sawBroken, healed,
                   doneSeen, lateDelta>>

\* callGroqStreaming returns null: no key, a network error, a non-OK status,
\* or the fetch rejected by the abort signal. The loop of sendToNvidiaAPI goes
\* on to callDeepSeekStreaming, which returns null at once on an aborted signal.
GroqFails(t) ==
    /\ pc[t] = "groq"
    /\ IF aborted[t]
       THEN ProvidersExhausted(t)
       ELSE /\ pc' = [pc EXCEPT ![t] = "deepseek"]
            /\ UNCHANGED <<isLoading, abortController, aiMessage, updates>>
    /\ UNCHANGED <<user, turns, aborted, stopSeen, streamVars>>

\* callDeepSeekStreaming: the fetch resolves with an OK response and a body.
DeepSeekResponds(t, body) ==
    /\ pc[t] = "deepseek"
    /\ ~aborted[t]
    /\ StartReading(t, body)
    /\ UNCHANGED <<user, turns, aborted, stopSeen, decoderPending,
                   accumulatedContent, releases, expected, sawBroken, healed,
                   doneSeen, lateDelta>>

\* callDeepSeekStreaming returns null, and sendToNvidiaAPI falls back.
DeepSeekFails(t) ==
    /\ pc[t] = "deepseek"
    /\ ProvidersExhausted(t)
    /\ UNCHANGED <<user, turns, aborted, stopSeen, streamVars>>

\* reader.read() resolves with the next n bytes of the body.
ReadChunk(t, n) ==
    /\ pc[t] = "reading"
    /\ ~aborted[t]
    /\ n \in 1..Len(wire[t])
    /\ LET r == ProcessChunk(t, SubSeq(wire[t], 1, n))
       IN  /\ accumulatedContent' = [accumulatedContent EXCEPT ![t] = r.st.acc]
           /\ updates' = [updates EXCEPT ![t] = r.st.pushed]
           /\ aiMessage' = [aiMessage EXCEPT ![t].content = r.st.pushed[Len(r.st.pushed)]]
           /\ doneSeen' = [doneSeen EXCEPT ![t] = r.st.done]
           /\ lateDelta' = [lateDelta EXCEPT ![t] = r.st.late]
           /\ sawBroken' = [sawBroken EXCEPT ![t] = r.st.broken]
           /\ healed' = [healed EXCEPT ![t] = r.st.healed]
           /\ expected' = [expected EXCEPT ![t] = @ \o ValidDeltas(r.lines)]
           /\ decoderPending' = [decoderPending EXCEPT ![t] = r.pending]
    /\ wire' = [wire EXCEPT ![t] = SubSeq(@, n + 1, Len(@))]
    /\ UNCHANGED <<user, isLoading, abortController, turns, pc, aborted,
                   readerLock, releases, stopSeen, bodyDeltas>>

\* The inner finally: reader.releaseLock().
KeepLock(t) == UNCHANGED <<readerLock, releases>>
ReleaseLock(t) ==
    /\ readerLock' = [readerLock EXCEPT ![t] = "released"]
    /\ releases' = [releases EXCEPT ![t] = @ + 1]

\* The read loop is left: the body and the decoder go out of scope.
DropBody(t) ==
    /\ wire' = [wire EXCEPT ![t] = <<>>]
    /\ decoderPending' = [decoderPending EXCEPT ![t] = <<>>]
    /\ bodyDeltas' = [bodyDeltas EXCEPT ![t] = <<>>]

\* reader.read() resolves with done: the loop breaks and the turn ends.
ReadDone(t) ==
    /\ pc[t] = "reading"
    /\ ~aborted[t]
    /\ wire[t] = <<>>
    /\ ReleaseLock(t)
    /\ Finally(t)
    /\ DropBody(t)
    /\ UNCHANGED <<user, turns, aborted, aiMessage, accumulatedContent, updates,
                   expected, sawBroken, healed, doneSeen, lateDelta, stopSeen>>

\* reader.read() rejects (the transport failed, or the signal aborted the
\* body): the lock is released, the outer catch logs, the turn ends.
ReadError(t) ==
    /\ pc[t] = "reading"
    /\ ReleaseLock(t)
    /\ Finally(t)
    /\ DropBody(t)
    /\ UNCHANGED <<user, turns, aborted, aiMessage, accumulatedContent, updates,
                   expected, sawBroken, healed, doneSeen, lateDelta, stopSeen>>

\* handleStopResponse, from the stop button (present only while isLoading).
HandleStopResponse ==
    /\ isLoading
    /\ IF abortController # NoController
       THEN aborted' = [aborted EXCEPT ![abortController] = TRUE]
       ELSE UNCHANGED aborted
    /\ abortController' = NoController
    /\ isLoading' = FALSE
    /\ stopSeen' = [t \in Turn |-> stopSeen[t] \/ pc[t] = "reading"]
    /\ UNCHANGED <<user, turns, pc, aiMessage, updates, streamVars>>

Routes == {"local", "blocked", "info", "plain"}

\* The steps of turn t other than its reads.
TurnStep(t, bodies) ==
    \/ \E via \in {"form", "edit"}, simple \in BOOLEAN, route \in Routes :
          HandleSendMessage(t, via, simple, route)
    \/ ScrapeReturns(t)
    \/ \E body \in bodies : GroqResponds(t, body)
    \/ GroqFails(t)
    \/ \E body \in bodies : DeepSeekResponds(t, body)
    \/ DeepSeekFails(t)
    \/ ReadDone(t)
    \/ ReadError(t)

\* The conversation: turns overlap freely; each body is one frame and
\* arrives in one chunk.
Next ==
    \/ \E u \in BOOLEAN : AuthStateChanged(u) /\ UNCHANGED <<rendererVars, textVars>>
    \/ \E t \in Turn : TurnStep(t, TurnWires) /\ UNCHANGED <<rendererVars, textVars>>
    \/ \E t \in Turn : ReadChunk(t, Len(wire[t])) /\ UNCHANGED <<rendererVars, textVars>>
    \/ HandleStopResponse /\ UNCHANGED <<rendererVars, textVars>>

Spec == Init /\ [][Next]_vars

\* One turn in full detail: its body is any run of frames and arrives in
\* chunks cut at any byte.
NextStream ==
    \/ \E u \in BOOLEAN : AuthStateChanged(u) /\ UNCHANGED <<rendererVars, textVars>>
    \/ TurnStep(1, Wires) /\ UNCHANGED <<rendererVars, textVars>>
    \/ \E n \in 1..Len(wire[1]) : ReadChunk(1, n) /\ UNCHANGED <<rendererVars, textVars>>
    \/ HandleStopResponse /\ UNCHANGED <<rendererVars, textVars>>

SpecStream == Init /\ [][NextStream]_vars

\* ------------------------------------------------- characters and regexes
\* A text is a sequence of one-character strings. The backtick cannot be
\* written in a string of this language; BT stands for it.
BT == "BACKTICK"
Chars(str) == [i \in 1..Len(str) |-> SubSeq(str, i, i)]
Range(f) == {f[i] : i \in DOMAIN f}
LowerSeq == Chars("abcdefghijklmnopqrstuvwxyz")
UpperSeq == Chars("ABCDEFGHIJKLMNOPQRSTUVWXYZ")
Lowers == Range(LowerSeq)
Uppers == Range(UpperSeq)
Digits == Range(Chars("0123456789"))
\* \w and \s
WordChars == Lowers \cup Uppers \cup Digits \cup {"_"}
SpaceChars == {" ", "\n", "\t", "\r"}
ToLower(ch) ==
    IF ch \in Uppers THEN LowerSeq[CHOOSE k \in 1..Len(UpperSeq) : UpperSeq[k] = ch] ELSE ch
ToUpper(ch) ==
    IF ch \in Lowers THEN UpperSeq[CHOOSE k \in 1..Len(LowerSeq) : LowerSeq[k] = ch] ELSE ch
\* String.prototype.toLowerCase
toLowerCase(s) == [i \in 1..Len(s) |-> ToLower(s[i])]

\* Regular expressions as trees.
Lit(str) == [op |-> "lit", cs |-> Chars(str)]
LitSeq(cs) == [op |-> "lit", cs |-> cs]
In(S) == [op |-> "in", set |-> S]
NotIn(S) == [op |-> "notin", set |-> S]
\* [\s\S] and .
AnyChar == NotIn({})
Dot == NotIn({"\n", "\r"})
Cat(rs) == [op |-> "cat", rs |-> rs]
Alt(rs) == [op |-> "alt", rs |-> rs]
Star(r) == [op |-> "star", r |-> r, guard |-> -1]
Plus(r) == Cat(<<r, Star(r)>>)
Opt(r) == Alt(<<r, Cat(<<>>)>>)
LazyStar(r) == [op |-> "lazy", r |-> r, guard |-> -1]
LazyPlus(r) == Cat(<<r, LazyStar(r)>>)
\* r{0,n}
AtMost(r, n) == [op |-> "rep", r |-> r, max |-> n, guard |-> -1]
\* \b, ^ and $
WordB == [op |-> "wordb"]
Bol == [op |-> "bol"]
Eol == [op |-> "eol"]
\* (a|b|...) over literal words
Words(strs) == Alt([i \in 1..Len(strs) |-> Lit(strs[i])])
WordCh == In(WordChars)
SpaceCh == In(SpaceChars)

\* The backtracking matcher of the regular expression engine: rs is what
\* remains to be matched, in order, from offset i of c.s; the result is the
\* offset at which the first successful attempt ends, or -1. c.ci is the i
\* flag, c.ml the m flag. guard is the offset at which the current iteration
\* of a quantifier began: an iteration that consumes nothing is rejected.
InSet(c, ch, set) == ch \in set \/ (c.ci /\ (ToLower(ch) \in set \/ ToUpper(ch) \in set))
IsWordAt(c, k) == k >= 1 /\ k <= Len(c.s) /\ c.s[k] \in WordChars
Min(a, b) == IF a < b THEN a ELSE b
Least(ns) == CHOOSE n \in ns : \A m \in ns : n <= m
Greatest(ns) == CHOOSE n \in ns : \A m \in ns : m <= n
\* A quantifier over one character class: the iterations it can make from
\* offset i are 0..Run, tried from the most down (greedy) or the fewest up.
IsClass(r) == r.op \in {"in", "notin"}
CharOk(c, r, ch) == IF r.op = "in" THEN InSet(c, ch, r.set) ELSE ~InSet(c, ch, r.set)
Run(c, r, i, max) ==
    CHOOSE n \in 0..Min(max, Len(c.s) - i) :
        /\ \A m \in 1..n : CharOk(c, r, c.s[i + m])
        /\ n = Min(max, Len(c.s) - i) \/ ~CharOk(c, r, c.s[i + n + 1])
Tried(res, greedy) ==
    IF \A n \in DOMAIN res : res[n] = -1 THEN -1
    ELSE IF greedy THEN res[Greatest({n \in DOMAIN res : res[n] # -1})]
    ELSE res[Least({n \in DOMAIN res : res[n] # -1})]

RECURSIVE Match(_, _, _)
Match(rs, c, i) ==
    IF rs = <<>> THEN i
    ELSE
    LET r == Head(rs)
        k == Tail(rs)
        again == <<r.r, [r EXCEPT !.guard = i]>> \o k
    IN
    CASE r.op = "lit" ->
            IF /\ i + Len(r.cs) <= Len(c.s)
               /\ \A n \in 1..Len(r.cs) :
                     IF c.ci THEN ToLower(c.s[i + n]) = ToLower(r.cs[n])
                     ELSE c.s[i + n] = r.cs[n]
            THEN Match(k, c, i + Len(r.cs)) ELSE -1
      [] r.op = "in" ->
            IF i < Len(c.s) /\ InSet(c, c.s[i + 1], r.set) THEN Match(k, c, i + 1) ELSE -1
      [] r.op = "notin" ->
            IF i < Len(c.s) /\ ~InSet(c, c.s[i + 1], r.set) THEN Match(k, c, i + 1) ELSE -1
      [] r.op = "cat" -> Match(r.rs \o k, c, i)
      [] r.op = "alt" ->
            IF r.rs = <<>> THEN -1
            ELSE LET first == Match(<<Head(r.rs)>> \o k, c, i)
                 IN  IF first # -1 THEN first ELSE Match(<<Alt(Tail(r.rs))>> \o k, c, i)
      [] r.op \in {"star", "lazy", "rep"} /\ IsClass(r.r) ->
            Tried([n \in 0..Run(c, r.r, i, IF r.op = "rep" THEN r.max ELSE Len(c.s)) |->
                       Match(k, c, i + n)],
                  r.op # "lazy")
      [] r.op = "star" ->
            IF r.guard = i THEN -1
            ELSE LET more == Match(again, c, i)
                 IN  IF more # -1 THEN more ELSE Match(k, c, i)
      [] r.op = "lazy" ->
            IF r.guard = i THEN -1
            ELSE LET none == Match(k, c, i)
                 IN  IF none # -1 THEN none ELSE Match(again, c, i)
      [] r.op = "rep" ->
            IF r.guard = i THEN -1
            ELSE IF r.max = 0 THEN Match(k, c, i)
            ELSE LET more == Match(<<r.r, [r EXCEPT !.guard = i, !.max = @ - 1]>> \o k, c, i)
                 IN  IF more # -1 THEN more ELSE Match(k, c, i)
      [] r.op = "wordb" -> IF IsWordAt(c, i) # IsWordAt(c, i + 1) THEN Match(k, c, i) ELSE -1
      [] r.op = "bol" -> IF i = 0 \/ (c.ml /\ c.s[i] = "\n") THEN Match(k, c, i) ELSE -1
      [] r.op = "eol" ->
            IF i = Len(c.s) \/ (c.ml /\ c.s[i + 1] = "\n") THEN Match(k, c, i) ELSE -1

Ctx(s, ci, ml) == [s |-> s, ci |-> ci, ml |-> ml]
\* RegExp.prototype.test, without flags / with i / with m
Test(r, s) == \E i \in 0..Len(s) : Match(<<r>>, Ctx(s, FALSE, FALSE), i) # -1
TestI(r, s) == \E i \in 0..Len(s) : Match(<<r>>, Ctx(s, TRUE, FALSE), i) # -1
TestM(r, s) == \E i \in 0..Len(s) : Match(<<r>>, Ctx(s, FALSE, TRUE), i) # -1
\* RegExp.prototype.exec of a g regex with lastIndex = from: the leftmost
\* match at or after from, as [found, index, end].
NoMatch == [found |-> FALSE, index |-> 0, end |-> 0]
Leftmost(res) ==
    IF \A i \in DOMAIN res : res[i] = -1 THEN NoMatch
    ELSE [found |-> TRUE,
          index |-> Least({i \in DOMAIN res : res[i] # -1}),
          end |-> res[Least({i \in DOMAIN res : res[i] # -1})]]
Exec(r, c, from) == Leftmost([i \in from..Len(c.s) |-> Match(<<r>>, c, i)])

\* String.prototype.includes
Includes(s, str) == Test(Lit(str), s)

\* String.prototype.trim
Inked(s) == {i \in 1..Len(s) : s[i] \notin SpaceChars}
Trim(s) == IF Inked(s) = {} THEN <<>> ELSE SubSeq(s, Least(Inked(s)), Greatest(Inked(s)))

\* ------------------------------------------------------------ code parser
Seg(type, content, language) == [type |-> type, content |-> content, language |-> language]
\* A text segment has no language field.
NoLanguage == <<>>

BT3 == <<BT, BT, BT>>
TL3 == Chars("~~~")
\* (m)([^\n]*)\n([\s\S]*?)\1 for one value m of the first group.
Fence(m) ==
    Cat(<<LitSeq(m), Star(NotIn({"\n"})), Lit("\n"), LazyStar(AnyChar), LitSeq(m)>>)
CODE_BLOCK_REGEX == Alt(<<Fence(BT3), Fence(TL3)>>)
\* (m)[\s\S]*?\1 of isCodingRelated and hasCodeBlock.
FencePair == Alt(<<Cat(<<LitSeq(BT3), LazyStar(AnyChar), LitSeq(BT3)>>),
                   Cat(<<LitSeq(TL3), LazyStar(AnyChar), LitSeq(TL3)>>)>>)

Brackets == Range(Chars("{}();=<>[]"))
CODE_INDICATORS == <<
    Cat(<<WordB, Words(<<"function", "const", "let", "var", "class", "interface",
                         "import", "export", "def", "return", "if", "else", "for",
                         "while", "try", "catch">>), WordB>>),
    In(Brackets),
    Cat(<<WordB, Words(<<"console.log", "print", "printf", "System.out">>)>>),
    Cat(<<Bol, Star(SpaceCh),
          Words(<<"def", "function", "class", "import", "export", "const", "let", "var">>),
          Plus(SpaceCh)>>) >>

codingKeywords == <<
    "code", "programming", "function", "variable", "algorithm", "syntax",
    "debug", "error", "bug", "compile", "script", "javascript", "python",
    "java", "react", "node", "html", "css", "api", "database", "sql",
    "array", "object", "class", "method", "framework", "library",
    "component", "props", "state", "hook", "typescript", "jsx", "tsx",
    "write", "create", "build", "make", "generate", "show", "fix",
    "implement", "develop", "program", "script", "application", "app",
    "software", "web", "mobile", "backend", "frontend", "fullstack" >>

codingQuestionPatterns == <<
    Cat(<<WordB, Lit("how"), Plus(SpaceCh), Lit("to"), WordB, Star(Dot), WordB,
          Words(<<"code", "program", "implement", "create", "build", "write">>), WordB>>),
    Cat(<<WordB, Words(<<"write", "create", "build", "make", "generate">>), Plus(SpaceCh),
          Star(Dot), WordB, Lit("code"), WordB>>),
    Cat(<<WordB, Lit("code"), Plus(SpaceCh), Lit("for"), WordB, Star(Dot), WordB,
          Words(<<"function", "class", "component", "program">>), WordB>>),
    Cat(<<WordB, Lit("implement"), Plus(SpaceCh), Star(Dot), WordB,
          Words(<<"in", "using", "with">>), WordB, Star(Dot), WordB,
          Words(<<"javascript", "python", "java", "react", "html", "css">>), WordB>>) >>

isCodingRelated(content) ==
    LET lowerContent == toLowerCase(content)
        hasKeywords == \E k \in 1..Len(codingKeywords) : Includes(lowerContent, codingKeywords[k])
        hasCodePatterns ==
            \E k \in 1..Len(CODE_INDICATORS) :
                IF k = Len(CODE_INDICATORS) THEN TestM(CODE_INDICATORS[k], content)
                ELSE Test(CODE_INDICATORS[k], content)
        hasCodeBlocks == Test(FencePair, content)
        hasCodingQuestions ==
            \E k \in 1..Len(codingQuestionPatterns) : TestI(codingQuestionPatterns[k], content)
    IN  hasKeywords \/ hasCodePatterns \/ hasCodeBlocks \/ hasCodingQuestions

\* JSON.parse as a recogniser: the offset after the value that starts at
\* offset i, or -1.
JsonSpace == {" ", "\n", "\r", "\t"}
HexDigits == Digits \cup Range(Chars("abcdefABCDEF"))
JsonNumber ==
    Cat(<<Opt(Lit("-")),
          Alt(<<Lit("0"), Cat(<<In(Digits \ {"0"}), Star(In(Digits))>>)>>),
          Opt(Cat(<<Lit("."), Plus(In(Digits))>>)),
          Opt(Cat(<<In({"e", "E"}), Opt(In({"+", "-"})), Plus(In(Digits))>>))>>)
JsonScalar == Alt(<<Lit("true"), Lit("false"), Lit("null"), JsonNumber>>)
JsonString ==
    Cat(<<Lit("\""),
          Star(Alt(<<NotIn({"\"", "\\", "\n", "\r", "\t"}),
                     Cat(<<Lit("\\"), In(Range(Chars("\"\\/bfnrt")))>>),
                     Cat(<<Lit("\\u"), In(HexDigits), In(HexDigits), In(HexDigits),
                           In(HexDigits)>>)>>)),
          Lit("\"")>>)
RECURSIVE JWs(_, _)
JWs(s, i) == IF i < Len(s) /\ s[i + 1] \in JsonSpace THEN JWs(s, i + 1) ELSE i
\* what is "value", "elems" (after "[" or ",") or "members" (after "{" or ",");
\* j is the offset of the next character that is not white space.
RECURSIVE JParse(_, _, _)
JAfterElem(s, j) ==
    IF j >= Len(s) THEN -1
    ELSE IF s[j + 1] = "," THEN JParse("elems", s, j + 1)
    ELSE IF s[j + 1] = "]" THEN j + 1 ELSE -1
JElem(s, e) == IF e = -1 THEN -1 ELSE JAfterElem(s, JWs(s, e))
JAfterMember(s, j) ==
    IF j >= Len(s) THEN -1
    ELSE IF s[j + 1] = "," THEN JParse("members", s, j + 1)
    ELSE IF s[j + 1] = "}" THEN j + 1 ELSE -1
JMemberValue(s, v) == IF v = -1 THEN -1 ELSE JAfterMember(s, JWs(s, v))
JColon(s, j) ==
    IF j >= Len(s) \/ s[j + 1] # ":" THEN -1 ELSE JMemberValue(s, JParse("value", s, j + 1))
JKey(s, key) == IF key = -1 THEN -1 ELSE JColon(s, JWs(s, key))
JOpen(what, close, s, j, inner) ==
    IF inner < Len(s) /\ s[inner + 1] = close THEN inner + 1 ELSE JParse(what, s, j + 1)
JValueAt(s, j) ==
    IF j >= Len(s) THEN -1
    ELSE IF s[j + 1] = "[" THEN JOpen("elems", "]", s, j, JWs(s, j + 1))
    ELSE IF s[j + 1] = "{" THEN JOpen("members", "}", s, j, JWs(s, j + 1))
    ELSE IF s[j + 1] = "\"" THEN Match(<<JsonString>>, Ctx(s, FALSE, FALSE), j)
    ELSE Match(<<JsonScalar>>, Ctx(s, FALSE, FALSE), j)
JParse(what, s, i) ==
    CASE what = "value" -> JValueAt(s, JWs(s, i))
      [] what = "elems" -> JElem(s, JParse("value", s, i))
      [] what = "members" ->
            JKey(s, Match(<<JsonString>>, Ctx(s, FALSE, FALSE), JWs(s, i)))
JSONparseEnd(code, e) == e # -1 /\ JWs(code, e) = Len(code)
JSONparseOk(code) == JSONparseEnd(code, JParse("value", code, 0))

IdentChars == WordChars \cup {"."}
Assign == Cat(<<Plus(WordCh), Star(SpaceCh), In({"=", ":"})>>)
TypeDecl == Cat(<<WordB, Words(<<"interface", "type">>), Plus(SpaceCh), Plus(WordCh)>>)
PrimitiveType == Cat(<<Lit(":"), Star(SpaceCh), Words(<<"string", "number", "boolean">>)>>)
ReactPattern ==
    Alt(<<Cat(<<WordB, Lit("return"), Star(SpaceCh), Lit("(")>>),
          Cat(<<Lit("<"), Plus(WordCh), Star(NotIn({">"})), Lit(">")>>),
          Cat(<<WordB, Lit("React.")>>),
          Cat(<<WordB, Lit("useState")>>),
          Cat(<<WordB, Lit("useEffect")>>),
          Cat(<<WordB, Lit("props.")>>),
          Lit("className=")>>)
TsxPattern == Alt(<<TypeDecl, Cat(<<Lit(":"), Star(SpaceCh), Lit("React.")>>), PrimitiveType>>)
HtmlOpenPattern == Cat(<<Lit("<"), Opt(Lit("/")), In(Lowers), Star(AnyChar), Lit(">")>>)
HtmlClosePattern ==
    Cat(<<Lit("</"),
          Alt(<<Lit("html"), Lit("body"), Lit("div"), Lit("p"), Lit("span"),
                Cat(<<Lit("h"), In(Range(Chars("123456")))>>)>>),
          Lit(">")>>)
CssPattern ==
    Alt(<<Cat(<<Lit("{"), Star(NotIn({"}"})), Lit("}")>>),
          Cat(<<Lit("."), Plus(In(Lowers \cup {"-"})), Star(SpaceCh), Lit("{")>>),
          Cat(<<Lit("#"), Plus(In(Lowers \cup {"-"})), Star(SpaceCh), Lit("{")>>),
          Lit("@media"), Lit("@import")>>)
PythonPattern ==
    Alt(<<Cat(<<WordB, Lit("def"), Plus(SpaceCh), Plus(WordCh), Star(SpaceCh), Lit("(")>>),
          Cat(<<WordB, Lit("import"), Plus(SpaceCh), Plus(WordCh)>>),
          Cat(<<WordB, Lit("from"), Plus(SpaceCh), Plus(WordCh), Plus(SpaceCh), Lit("import")>>),
          Cat(<<WordB, Lit("print"), Star(SpaceCh), Lit("(")>>)>>)
JsPattern ==
    Alt(<<Cat(<<WordB, Words(<<"const", "let", "var">>), Plus(SpaceCh), Plus(WordCh)>>),
          Cat(<<WordB, Lit("function"), Plus(SpaceCh), Plus(WordCh)>>),
          Cat(<<WordB, Lit("console.log")>>),
          Lit("=>")>>)
TsPattern ==
    Alt(<<TypeDecl, Cat(<<Lit(":"), Star(SpaceCh), Plus(WordCh), Lit("[]")>>), PrimitiveType>>)
JavaPattern ==
    Alt(<<Cat(<<WordB, Lit("public"), Plus(SpaceCh), Words(<<"class", "static">>)>>),
          Cat(<<WordB, Lit("System.out.print")>>)>>)
SqlPattern ==
    Cat(<<WordB, Words(<<"SELECT", "INSERT", "UPDATE", "DELETE", "CREATE", "ALTER", "DROP">>),
          WordB>>)
JsonOpenPattern == Cat(<<Bol, Star(SpaceCh), In({"{", "["})>>)
JsonClosePattern == Cat(<<In({"}", "]"}), Star(SpaceCh), Eol>>)

detectLanguageSqlFirst(code) ==
    IF Test(ReactPattern, code)
        THEN IF Test(TsxPattern, code) THEN Chars("tsx") ELSE Chars("jsx")
    ELSE IF TestI(HtmlOpenPattern, code) /\ TestI(HtmlClosePattern, code) THEN Chars("html")
    ELSE IF Test(CssPattern, code) THEN Chars("css")
    ELSE IF TestI(SqlPattern, code) THEN Chars("sql")
    ELSE IF Test(PythonPattern, code) THEN Chars("python")
    ELSE IF Test(JsPattern, code)
        THEN IF Test(TsPattern, code) THEN Chars("typescript") ELSE Chars("javascript")
    ELSE IF Test(JavaPattern, code) THEN Chars("java")
    ELSE IF /\ Test(JsonOpenPattern, Trim(code))
            /\ Test(JsonClosePattern, Trim(code))
            /\ JSONparseOk(code) THEN Chars("json")
    ELSE Chars("javascript")
detectLanguage(code) ==
    IF Test(ReactPattern, code)
        THEN IF Test(TsxPattern, code) THEN Chars("tsx") ELSE Chars("jsx")
    ELSE IF TestI(HtmlOpenPattern, code) /\ TestI(HtmlClosePattern, code) THEN Chars("html")
    ELSE IF Test(CssPattern, code) THEN Chars("css")
    ELSE IF Test(PythonPattern, code) THEN Chars("python")
    ELSE IF Test(JsPattern, code)
        THEN IF Test(TsPattern, code) THEN Chars("typescript") ELSE Chars("javascript")
    ELSE IF Test(JavaPattern, code) THEN Chars("java")
    ELSE IF TestI(SqlPattern, code) THEN Chars("sql")
    ELSE IF /\ Test(JsonOpenPattern, Trim(code))
            /\ Test(JsonClosePattern, Trim(code))
            /\ JSONparseOk(code) THEN Chars("json")
    ELSE Chars("javascript")

codeLinePattern ==
    Cat(<<Bol, Star(SpaceCh),
          Alt(<<Words(<<"function", "const", "let", "var", "class", "def", "import",
                        "export", "if", "for", "while", "return", "console", "print">>),
                Assign, In(Range(Chars("{}();")))>>),
          AtMost(AnyChar, 300), Eol>>)
LatexDelimiter == Cat(<<Lit("\\"), In({"[", "("})>>)
LatexCommand ==
    Cat(<<Lit("\\"), Words(<<"frac", "sqrt", "sum", "int", "cdot", "times", "div">>)>>)
\* i is the 0-based index of the loop; lines[i + 1] is its line.
isLaTeXContext(lines, i) ==
    \/ Test(LatexDelimiter, lines[i + 1])
    \/ Test(Lit("$$"), lines[i + 1])
    \/ Test(LatexCommand, lines[i + 1])
    \/ (i > 0 /\ Test(LatexDelimiter, lines[i]))
    \/ (i < Len(lines) - 1 /\ Test(LatexDelimiter, lines[i + 2]))
CodeLikeLine ==
    Cat(<<Bol, Star(SpaceCh),
          Alt(<<In(Brackets),
                Words(<<"function", "const", "let", "var", "class", "def", "if", "for",
                        "while", "return">>),
                Assign,
                Cat(<<Plus(In(IdentChars)), Lit("("), Star(NotIn({")"})), Lit(")")>>)>>)>>)
AssignLine == Cat(<<Bol, Star(SpaceCh), Plus(In(IdentChars)), Star(SpaceCh), In({"=", ":"})>>)
CloserLine == Cat(<<Bol, Star(SpaceCh), In({"}", ")"})>>)

\* Array.prototype.join('\n')
RECURSIVE Join(_)
Join(lines) ==
    IF lines = <<>> THEN <<>>
    ELSE IF Len(lines) = 1 THEN lines[1]
    ELSE lines[1] \o <<"\n">> \o Join(Tail(lines))

\* The look-ahead loop from its 0-based index i on: the code lines it gathers.
RECURSIVE LookAhead(_, _, _)
LookAhead(lines, i, codeLines) ==
    IF i >= Min(Len(lines), 100) THEN codeLines
    ELSE LET line == lines[i + 1]
         IN  IF /\ ~isLaTeXContext(lines, i)
                /\ \/ Trim(line) = <<>>
                   \/ Test(CodeLikeLine, line)
                   \/ Test(AssignLine, line)
                   \/ Test(CloserLine, line)
             THEN LookAhead(lines, i + 1, Append(codeLines, line))
             ELSE IF Len(codeLines) > 2 THEN codeLines
             ELSE LookAhead(lines, i + 1, codeLines)

\* The while loop of detectInlineCode with codeLinePattern.lastIndex = from.
RECURSIVE DetectFrom(_, _)
Block(start, end, code) ==
    [start |-> start, end |-> end, code |-> code, language |-> detectLanguage(code)]
BlockOf(match, codeLines) ==
    IF Len(codeLines) > 1 \/ Len(codeLines[1]) > 15
    THEN <<Block(match.index,
                 IF Len(codeLines) > 1 THEN match.index + Len(Join(codeLines)) ELSE match.end,
                 Trim(Join(codeLines)))>>
    ELSE <<>>
LinesFrom(lines) == LookAhead(lines, 1, <<lines[1]>>)
DetectMatch(text, match) ==
    IF ~match.found THEN <<>>
    ELSE BlockOf(match, LinesFrom(SplitOn(SliceFrom(text, match.index), "\n")))
         \o DetectFrom(text, match.end)
DetectFrom(text, from) == DetectMatch(text, Exec(codeLinePattern, Ctx(text, FALSE, TRUE), from))
detectInlineCode(text) == DetectFrom(text, 0)

\* String.prototype.replace with a g pattern: every match of r, left to
\* right, loses its first and last n characters and is wrapped in open, close.
RECURSIVE ReplaceFrom(_, _, _, _, _, _)
ReplaceMatch(s, from, r, n, open, close, match) ==
    IF ~match.found THEN SliceFrom(s, from)
    ELSE Slice(s, from, match.index) \o open
         \o Slice(s, match.index + n, match.end - n) \o close
         \o ReplaceFrom(s, match.end, r, n, open, close)
ReplaceFrom(s, from, r, n, open, close) ==
    ReplaceMatch(s, from, r, n, open, close, Exec(r, Ctx(s, FALSE, FALSE), from))
\* s.replace(/str/g, with)
ReplaceAll(s, str, with) == ReplaceFrom(s, 0, Lit(str), Len(str), Chars(with), <<>>)
BoldPattern == Cat(<<Lit("**"), LazyPlus(Dot), Lit("**")>>)
ItalicPattern == Cat(<<Lit("*"), LazyPlus(Dot), Lit("*")>>)
DecodeEntities(value) ==
    ReplaceAll(ReplaceAll(ReplaceAll(ReplaceAll(ReplaceAll(value,
        "&lt;", "<"), "&gt;", ">"), "&quot;", "\""), "&#x27;", "'"), "&amp;", "&")
Strong(value) == ReplaceFrom(value, 0, BoldPattern, 2, Chars("<strong>"), Chars("</strong>"))
Emphasis(value) == ReplaceFrom(value, 0, ItalicPattern, 1, Chars("<em>"), Chars("</em>"))

sanitizeInlineHtml(value) == Trim(Emphasis(Strong(DecodeEntities(value))))

\* A segment together with the range [from, to) of the source it was cut from.
Item(type, text, language, from, to) ==
    [type |-> type, content |-> text, language |-> language, from |-> from, to |-> to]
\* if (text) segments.push({type: 'text', content: sanitizeInlineHtml(text)})
TextOf(text, from, to) ==
    IF text = <<>> THEN <<>>
    ELSE <<Item("text", sanitizeInlineHtml(text), NoLanguage, from, to)>>
TextItem(s, from, to) == TextOf(Trim(Slice(s, from, to)), from, to)

\* Offset of the first "\n" at or after offset i.
NewlineAt(s, i) == Least({j \in i..Len(s) : j = Len(s) \/ s[j + 1] = "\n"})

\* The while loop over CODE_BLOCK_REGEX with CODE_BLOCK_REGEX.lastIndex = lastIndex.
\* match[2] runs from after the marker to the first "\n", match[3] from
\* there to the closing marker.
RECURSIVE FenceLoop(_, _, _, _)
CodeOf(languageRaw, rawCode, from, to) ==
    IF rawCode = <<>> THEN <<>>
    ELSE <<Item("code", rawCode,
                toLowerCase(IF languageRaw # <<>> THEN languageRaw ELSE detectLanguage(rawCode)),
                from, to)>>
CodeItem(s, match, nl) ==
    CodeOf(Trim(Slice(s, match.index + 3, nl)), Trim(Slice(s, nl + 1, match.end - 3)),
           match.index, match.end)
FenceMatch(s, lastIndex, items, hasCodeBlock, match) ==
    IF ~match.found
    THEN [items |-> items, lastIndex |-> lastIndex, hasCodeBlock |-> hasCodeBlock]
    ELSE FenceLoop(s, match.end,
                   items \o TextItem(s, lastIndex, match.index)
                         \o CodeItem(s, match, NewlineAt(s, match.index + 3)),
                   TRUE)
FenceLoop(s, lastIndex, items, hasCodeBlock) ==
    FenceMatch(s, lastIndex, items, hasCodeBlock,
               Exec(CODE_BLOCK_REGEX, Ctx(s, FALSE, FALSE), lastIndex))

\* inlineCodeBlocks.forEach and the text after the last block.
RECURSIVE InlineItems(_, _, _)
InlineItems(s, blocks, textIndex) ==
    IF blocks = <<>>
    THEN IF textIndex < Len(s) THEN TextItem(s, textIndex, Len(s)) ELSE <<>>
    ELSE (IF blocks[1].start > textIndex THEN TextItem(s, textIndex, blocks[1].start)
          ELSE <<>>)
         \o <<Item("code", blocks[1].code, detectLanguage(blocks[1].code),
                   blocks[1].start, blocks[1].end)>>
         \o InlineItems(s, Tail(blocks), blocks[1].end)

\* if (inlineCodeBlocks.length > 0) ... else ...
InlineOrText(s, inlineCodeBlocks) ==
    IF inlineCodeBlocks # <<>> THEN InlineItems(s, inlineCodeBlocks, 0)
    ELSE TextItem(s, 0, Len(s))
\* if (remainingText.trim()) ...
RemainingAlwaysInline(s, fenced) ==
    IF Trim(SliceFrom(s, fenced.lastIndex)) = <<>> THEN <<>>
    ELSE IF isCodingRelated(SliceFrom(s, fenced.lastIndex))
         THEN InlineOrText(s, detectInlineCode(SliceFrom(s, fenced.lastIndex)))
    ELSE TextItem(s, fenced.lastIndex, Len(s))
Remaining(s, fenced) ==
    IF Trim(SliceFrom(s, fenced.lastIndex)) = <<>> THEN <<>>
    ELSE IF ~fenced.hasCodeBlock /\ isCodingRelated(SliceFrom(s, fenced.lastIndex))
         THEN InlineOrText(s, detectInlineCode(SliceFrom(s, fenced.lastIndex)))
    ELSE TextItem(s, fenced.lastIndex, Len(s))
AfterFences(s, fenced) == fenced.items \o Remaining(s, fenced)
\* if (segments.length === 0) segments.push(...)
AtLeastOne(s, segments) ==
    IF segments = <<>> THEN <<Item("text", sanitizeInlineHtml(Trim(s)), NoLanguage, 0, Len(s))>>
    ELSE segments

\* The segments of parseMessageForCode, each with its source range.
ParseItems(s) ==
    IF Trim(s) = <<>> THEN <<>>
    ELSE AtLeastOne(s, AfterFences(s, FenceLoop(s, 0, <<>>, FALSE)))

Segments(items) ==
    [k \in 1..Len(items) |-> Seg(items[k].type, items[k].content, items[k].language)]
Parsed(s, segments) ==
    [segments |-> segments,
     hasCode |-> \E k \in 1..Len(segments) : segments[k].type = "code",
     isCodingRelated |-> Trim(s) # <<>> /\ isCodingRelated(s)]
parseMessageForCode(s) == Parsed(s, Segments(ParseItems(s)))

\* ------------------------------------------------------- message renderer
\* The texts a delta can carry.
FencedBlock == BT3 \o Chars("\nx=1\n") \o BT3
DeltaTexts == {BT3, TL3, <<"\n">>, Chars("x=1\n"), Chars("hi\n"), FencedBlock}

Rendered(s) == [content |-> s, parsed |-> parseMessageForCode(s)]
chatVars == <<user, isLoading, abortController, turns, pc, aborted, aiMessage,
              wire, decoderPending, accumulatedContent, readerLock, releases,
              updates, expected, sawBroken, healed, doneSeen, lateDelta, stopSeen,
              bodyDeltas>>

\* The AI message is added with content '' and rendered.
MountMessage ==
    /\ renders = <<>>
    /\ renders' = <<Rendered(messageText)>>
    /\ UNCHANGED <<messageText, chatVars, textVars>>

\* A delta is appended to the message and the message is rendered again.
RenderDelta(delta) ==
    /\ renders # <<>>
    /\ Len(renders) <= MaxDeltas
    /\ messageText' = messageText \o delta
    /\ renders' = Append(renders, Rendered(messageText'))
    /\ UNCHANGED <<chatVars, textVars>>

NextParse ==
    \/ MountMessage
    \/ \E delta \in DeltaTexts : RenderDelta(delta)

SpecParse == Init /\ [][NextParse]_vars

\* ------------------------------------------------- utils/security.ts
\* A long message is written with one atom that stands for a run of the
\* letter z, a letter no pattern of this file contains; it brings the text
\* to ten characters below the length limit.
MessageLimit == 10000
Filler == "zzz...z"
FillerLength == MessageLimit - 10
\* String.prototype.length
\* The text of the failure notice of generateAIResponse between '[IMPORTANT]'
\* and the line break: ': Web scraping failed. ... current information.'
NoticeBody == "(notice)"
NoticeBodyLength == 185
Length(s) ==
    Len(s) + (FillerLength - 1) * Cardinality({i \in 1..Len(s) : s[i] = Filler})
           + (NoticeBodyLength - 1) * Cardinality({i \in 1..Len(s) : s[i] = NoticeBody})

\* \s* and \s+, an optional word with what follows it, (\s+is|\s+are)
Ws == Star(SpaceCh)
Sp == Plus(SpaceCh)
OptWord(str, sep) == Opt(Cat(<<Lit(str), sep>>))
IsOrAre == Alt(<<Cat(<<Sp, Lit("is")>>), Cat(<<Sp, Lit("are")>>)>>)
Two(a, b) == Cat(<<Lit(a), Ws, Lit(b)>>)
PromptOrInstruction == Words(<<"prompt", "instruction">>)
YourSystemPrompt == Cat(<<OptWord("your", Sp), OptWord("system", Sp), PromptOrInstruction>>)
RealName == Cat(<<OptWord("your", Sp), Words(<<"real", "actual", "original", "true">>), Ws,
                  Words(<<"model", "name">>)>>)
AreYou == Alt(<<Cat(<<Lit("are"), Sp, Lit("you")>>),
                Cat(<<Lit("do"), Sp, Lit("you"), Sp, Lit("use")>>)>>)
Previous(verb) ==
    Cat(<<Lit(verb), Sp, Words(<<"previous", "all", "above">>), Ws,
          Words(<<"instruction", "prompt", "rule">>)>>)
FirstMessage == Cat(<<OptWord("your", Sp), Words(<<"first", "initial", "original">>), Ws,
                      Words(<<"message", "instruction", "prompt">>)>>)

\* The patterns of the table that ask for the system prompt.
SystemPrompt == Cat(<<Lit("system"), Ws, Lit("prompt")>>)
ShowPrompt ==
    Cat(<<Lit("show"), Ws, OptWord("me", Ws), OptWord("your", Ws),
          Opt(Cat(<<Words(<<"system", "original", "initial", "base">>), Ws>>)),
          PromptOrInstruction>>)
WhatIsPrompt == Cat(<<Lit("what"), IsOrAre, Sp, YourSystemPrompt>>)
TellPrompt == Cat(<<Lit("tell"), Sp, Lit("me"), Sp, YourSystemPrompt>>)
RevealPrompt == Cat(<<Lit("reveal"), Sp, YourSystemPrompt>>)
DisplayPrompt == Cat(<<Lit("display"), Sp, YourSystemPrompt>>)
RepeatFirst == Cat(<<Lit("repeat"), Sp, FirstMessage>>)
WhatWasFirst == Cat(<<Lit("what"), Sp, Words(<<"were", "was">>), Sp, FirstMessage>>)

INJECTION_PATTERNS == <<
    \* Direct system prompt extraction attempts
    SystemPrompt, ShowPrompt, WhatIsPrompt, TellPrompt, RevealPrompt, DisplayPrompt,
    \* API key extraction attempts
    Two("api", "key"), Two("secret", "key"), Two("authorization", "key"),
    Two("access", "token"), Two("bearer", "token"),
    Cat(<<Alt(<<Lit("show"), Lit("tell"), Lit("reveal"), Lit("display"),
                Cat(<<Lit("what"), IsOrAre>>)>>),
          Sp, OptWord("me", Sp), OptWord("your", Sp), Lit("key")>>),
    \* Model information extraction
    Cat(<<Lit("what"), IsOrAre, Sp, RealName>>),
    Cat(<<Lit("which"), Sp, Lit("model"), Sp, AreYou>>),
    Cat(<<Lit("what"), Sp, Lit("model"), Sp, AreYou>>),
    Cat(<<Lit("tell"), Sp, Lit("me"), Sp, RealName>>),
    Words(<<"gpt", "claude", "llama", "deepseek", "groq", "openai", "anthropic">>),
    \* Backend/technical details extraction
    Lit("backend"), Two("server", "config"), Two("environment", "variable"),
    Lit(".env"), Lit("configuration"), Lit("database"),
    Cat(<<Words(<<"show", "tell", "reveal", "display">>), Sp, OptWord("me", Sp),
          OptWord("your", Sp), Words(<<"code", "source", "config", "setup">>)>>),
    \* Jailbreak attempts
    Previous("ignore"), Previous("forget"), Previous("disregard"), Previous("override"),
    Cat(<<Lit("new"), Ws, Words(<<"instruction", "prompt", "rule", "mode">>)>>),
    Two("developer", "mode"), Two("debug", "mode"), Two("admin", "mode"), Two("god", "mode"),
    \* Role-playing jailbreaks
    Cat(<<Lit("you"), Sp, Lit("are"), Sp, Lit("now")>>),
    Cat(<<Lit("act"), Sp, Lit("as"), Sp, OptWord("if", Sp),
          Alt(<<Cat(<<Lit("you"), Sp, Lit("are")>>), Lit("a")>>)>>),
    Cat(<<Lit("pretend"), Sp,
          Alt(<<Cat(<<Lit("to"), Sp, Lit("be")>>), Cat(<<Lit("you"), Sp, Lit("are")>>)>>)>>),
    Lit("simulate"),
    \* System manipulation
    Lit("[SYSTEM]"), Lit("[ADMIN]"), Lit("[ROOT]"), Lit("<system>"),
    Cat(<<Lit("execute"), Sp, Lit("command")>>), Cat(<<Lit("run"), Sp, Lit("command")>>),
    \* Encoding tricks
    Lit("base64"), Two("hex", "encode"), Lit("rot13"), Lit("unicode"),
    \* Prompt leaking through conversation
    RepeatFirst, WhatWasFirst >>

\* The patterns detectPromptInjection tests first.
SystemPromptChecks ==
    <<SystemPrompt, ShowPrompt, WhatIsPrompt, TellPrompt, RevealPrompt, RepeatFirst>>

AnyTestI(patterns, s) == \E k \in 1..Len(patterns) : TestI(patterns[k], s)

\* [<>{}[\]\\|]
SpecialChars == {"<", ">", "{", "}", "[", "]", "\\", "|"}
SpecialCharLimit == 10
specialCharCount(s) == Cardinality({i \in 1..Len(s) : s[i] \in SpecialChars})
ExcessiveFromLimit(count) == count >= SpecialCharLimit
Excessive(count) == count > SpecialCharLimit

Detected(type) == [detected |-> TRUE, type |-> type]
NotDetected == [detected |-> FALSE, type |-> ""]
DetectIn(normalizedInput, lowerInput) ==
    IF AnyTestI(SystemPromptChecks, normalizedInput) THEN Detected("system_prompt")
    ELSE IF AnyTestI(INJECTION_PATTERNS, normalizedInput) THEN Detected("general")
    ELSE IF /\ Test(LitSeq(<<BT, BT, BT>>), normalizedInput)
            /\ Includes(lowerInput, "system") \/ Includes(lowerInput, "prompt")
    THEN Detected("general")
    ELSE IF Excessive(specialCharCount(normalizedInput)) THEN Detected("general")
    ELSE NotDetected
detectPromptInjection(input) == DetectIn(Trim(input), toLowerCase(Trim(input)))

\* getInjectionBlockedResponse; pick is Math.floor(Math.random() * 3).
SystemPromptRefusal == <<"About My System Configuration">>
responses == << <<"I'm here to help with learning and education!">>,
                <<"I'm intgo, your AI learning assistant!">>,
                <<"Hey there! I'm intgo, designed to help you learn!">> >>
AlwaysGeneralResponse(isSystemPromptRequest, pick) == responses[pick + 1]
getInjectionBlockedResponse(isSystemPromptRequest, pick) ==
    IF isSystemPromptRequest THEN SystemPromptRefusal ELSE responses[pick + 1]

\* s.replace(r, with) for a gi pattern r that matches no empty text.
RECURSIVE Replaced(_, _, _, _)
ReplacedMatch(s, from, r, with, match) ==
    IF ~match.found THEN SliceFrom(s, from)
    ELSE Slice(s, from, match.index) \o with \o Replaced(s, match.end, r, with)
Replaced(s, from, r, with) == ReplacedMatch(s, from, r, with, Exec(r, Ctx(s, TRUE, FALSE), from))

REDACTED == Chars("[REDACTED]")
sanitizeInput(input) ==
    Replaced(Replaced(Replaced(Replaced(Replaced(input,
        0, Lit("[SYSTEM]"), REDACTED),
        0, Lit("[ADMIN]"), REDACTED),
        0, Lit("[ROOT]"), REDACTED),
        0, Lit("<system>"), REDACTED),
        0, Lit("<admin>"), REDACTED)

Invalid(sanitized, reason, injectionType) ==
    [isValid |-> FALSE, sanitized |-> sanitized, reason |-> reason,
     injectionType |-> injectionType]
Valid(sanitized) == [isValid |-> TRUE, sanitized |-> sanitized, reason |-> "", injectionType |-> ""]
LengthChecked(sanitized) ==
    IF Length(sanitized) > MessageLimit THEN Invalid(sanitized, "message_too_long", "")
    ELSE Valid(sanitized)
Verdict(content, injectionResult) ==
    IF injectionResult.detected
    THEN Invalid(content, "prompt_injection_detected", injectionResult.type)
    ELSE LengthChecked(sanitizeInput(content))
validateMessage(content) == Verdict(content, detectPromptInjection(content))

\* [\s-]*, \d*
Gap == Star(In(SpaceChars \cup {"-"}))
Number == Star(In(Digits))
IntgoNames ==
    <<Lit("deepseek"), Lit("groq"),
      Cat(<<Lit("llama"), Gap, Number, Opt(Lit(".")), Number>>),
      Cat(<<Lit("gpt"), Gap, Number>>),
      Lit("claude")>>
Openrouter == Lit("openrouter")
Credentials ==
    <<Cat(<<Lit("api"), Gap, Lit("key"), Opt(Lit("s"))>>),
      Cat(<<Lit("bearer"), Gap, Lit("token")>>),
      Lit("authorization")>>
\* A chain of replace calls with the same replacement.
RECURSIVE ReplacedEach(_, _, _)
ReplacedEach(s, patterns, with) ==
    IF patterns = <<>> THEN s
    ELSE ReplacedEach(Replaced(s, 0, Head(patterns), with), Tail(patterns), with)
filterOpenrouterFirst(text) ==
    ReplacedEach(ReplacedEach(Replaced(text, 0, Openrouter, Chars("our AI service")),
                              IntgoNames, Chars("intgo")),
                 Credentials, REDACTED)
filterSensitiveResponse(text) ==
    ReplacedEach(Replaced(ReplacedEach(text, IntgoNames, Chars("intgo")),
                          0, Openrouter, Chars("our AI service")),
                 Credentials, REDACTED)

\* --------------------------------------------- sendToNvidiaAPI as a whole
\* The texts of the last message: runs of at most MaxPieces of these pieces.
Pieces == {<<Filler>>, Chars("system prompt"), Chars("display your prompt"),
           Chars(" api key"), Chars("<admin> ok"), Chars("<>{}[]"), Chars("\\|<>{")}
UserTexts == {Flatten(ps) : ps \in SeqsUpTo(Pieces, MaxPieces)}

providersDeepSeekFirst == <<"DeepSeek", "Groq">>
providers == <<"Groq", "DeepSeek">>
\* What becomes of a handler's request: a response with a body, no API key,
\* a rejected fetch, a status that is not OK, an OK response without a body.
HandlerOutcomes == {"body", "no key", "network error", "error status", "no body"}
StringResponse(text) == [type |-> "string", text |-> text]
StreamResponse(provider) == [type |-> "stream", text |-> <<provider>>]
Call(provider, outcome) == [provider |-> provider, outcome |-> outcome[provider]]
\* for (const provider of providers) { ... } and the final fallback.
RECURSIVE ProviderLoop(_, _, _)
ProviderLoop(remaining, outcome, calls) ==
    IF remaining = <<>> THEN [calls |-> calls, returned |-> StringResponse(ApologyText)]
    ELSE IF outcome[Head(remaining)] = "body"
    THEN [calls |-> Append(calls, Call(Head(remaining), outcome)),
          returned |-> StreamResponse(Head(remaining))]
    ELSE ProviderLoop(Tail(remaining), outcome, Append(calls, Call(Head(remaining), outcome)))

\* The caller passes the messages of the conversation; the last one reads text.
\* /who is|what is|current|latest|news|president|minister|ceo|price|score|winner/i
InfoQuery ==
    Words(<<"who is", "what is", "current", "latest", "news", "president", "minister",
            "ceo", "price", "score", "winner">>)
\* What scrapeContextFromWeb resolves with: null, or a source line and an extract.
NoContext == <<>>
Contexts == {NoContext, Chars("Source: Wikipedia\nok"), Chars("Source: Wikipedia\nan api key")}
\* The content of the last message after the injection.
Injected(content, context) ==
    IF context # NoContext
    THEN Chars("[Real-time Search Result]: ") \o context
            \o Chars("\n\nUser Question: ") \o content
    ELSE Chars("[IMPORTANT]") \o <<NoticeBody>> \o Chars("\n\nUser Question: ") \o content
\* nvidiaMessages[lastMsgIndex].content when sendToNvidiaAPI is called.
Prepared(content, context) ==
    IF TestI(InfoQuery, toLowerCase(content)) THEN Injected(content, context) ELSE content

\* generateAIResponse up to its call of sendToNvidiaAPI, for the user's text
\* and the outcome of the web search it may run.
ReceiveMessages(text, context) ==
    /\ lastUserMessage = <<>>
    /\ response = NoResponse
    /\ text # <<>>
    /\ lastMessage' = text
    /\ lastUserMessage' = Prepared(text, context)
    /\ UNCHANGED <<validation, response, handlerCalls, chatVars, rendererVars, replyVars,
                   utilVars>>

Returns(result) ==
    /\ response' = result.returned
    /\ handlerCalls' = result.calls

\* sendToNvidiaAPI from the validation on.
SendToNvidiaAPI ==
    /\ response = NoResponse
    /\ validation' = validateMessage(lastUserMessage)
    /\ IF ~validation'.isValid
       THEN \E pick \in 0..2 :
               Returns([calls |-> <<>>,
                        returned |-> StringResponse(getInjectionBlockedResponse(
                                         validation'.injectionType = "system_prompt", pick))])
       ELSE \E outcome \in [Range(providers) -> HandlerOutcomes] :
               Returns(ProviderLoop(providers, outcome, <<>>))
    /\ UNCHANGED <<lastUserMessage, lastMessage, chatVars, rendererVars, replyVars, utilVars>>

NextGuard ==
    \/ \E text \in UserTexts, context \in Contexts : ReceiveMessages(text, context)
    \/ SendToNvidiaAPI

SpecGuard == Init /\ [][NextGuard]_vars

\* The same for messages that ask for news, with every outcome of the search.
InfoPieces == {<<Filler>>, Chars("\\|<>{"), Chars(" api key"), Chars(" news")}
InfoTexts == {Flatten(ps) : ps \in SeqsUpTo(InfoPieces, MaxPieces)}
NextInfo ==
    \/ \E text \in InfoTexts, context \in Contexts : ReceiveMessages(text, context)
    \/ SendToNvidiaAPI

SpecInfo == Init /\ [][NextInfo]_vars

\* ------------------------------------- services/chatService.ts: formatting
BulletSign == "(bullet)"
CopyrightSign == "(c)"
RegisteredSign == "(r)"
decodeHtmlEntities(text) ==
    ReplaceFrom(ReplaceFrom(
        ReplaceAll(ReplaceAll(ReplaceAll(ReplaceAll(ReplaceAll(ReplaceAll(text,
            "&amp;", "&"), "&lt;", "<"), "&gt;", ">"), "&quot;", "\""), "&#39;", "'"),
            "&nbsp;", " "),
        0, Lit("&copy;"), 6, <<CopyrightSign>>, <<>>),
        0, Lit("&reg;"), 5, <<RegisteredSign>>, <<>>)

\* (?:=|\\frac|\\lambda|...) and the same without the equals sign
MacroMarker ==
    Words(<<"\\frac", "\\lambda", "\\alpha", "\\beta", "\\gamma", "\\delta", "\\theta",
            "\\pi", "\\sigma", "\\omega", "\\sum", "\\int", "\\sqrt", "\\Delta", "\\nabla">>)
FormulaMarker == Alt(<<Lit("="), MacroMarker>>)
FormulaFence(marker) ==
    Cat(<<LitSeq(BT3), Words(<<"javascript", "css", "python", "java", "c++", "code">>),
          Ws, Lit("\n"),
          LazyStar(NotIn({BT})), marker, LazyStar(NotIn({BT})),
          Lit("\n"), LitSeq(BT3)>>)
\* [=+\-*/^]|\\[a-zA-Z]+
LooksLikeMath ==
    Alt(<<In({"=", "+", "-", "*", "/", "^"}), Cat(<<Lit("\\"), Plus(In(Lowers \cup Uppers))>>)>>)
\* Offset of the first white space at or after offset i.
SpaceAt(s, i) == Least({j \in i..Len(s) : j = Len(s) \/ s[j + 1] \in SpaceChars})
\* The replacer function: formula is everything between the language tag and
\* the closing line; its outer white space goes with trim().
FormulaReplacer(fullMatch, cleanFormula) ==
    IF Test(LooksLikeMath, cleanFormula)
    THEN Chars("\n\\[\n") \o cleanFormula \o Chars("\n\\]\n")
    ELSE fullMatch
RECURSIVE FormulasFrom(_, _, _)
FormulasMatch(text, from, marker, match) ==
    IF ~match.found THEN SliceFrom(text, from)
    ELSE Slice(text, from, match.index)
         \o FormulaReplacer(Slice(text, match.index, match.end),
                            Trim(Slice(text, SpaceAt(text, match.index + 3), match.end - 4)))
         \o FormulasFrom(text, match.end, marker)
FormulasFrom(text, from, marker) ==
    FormulasMatch(text, from, marker, Exec(FormulaFence(marker), Ctx(text, TRUE, FALSE), from))
processFormulasMacrosOnly(text) == FormulasFrom(text, 0, MacroMarker)
processFormulas(text) == FormulasFrom(text, 0, FormulaMarker)

\* ```(\w+)?\n([\s\S]*?)```
BlockPattern ==
    Cat(<<LitSeq(BT3), Opt(Plus(WordCh)), Lit("\n"), LazyStar(AnyChar), LitSeq(BT3)>>)
RECURSIVE BlocksFrom(_, _)
BlockReplacerUntrimmed(language, code) ==
    BT3 \o (IF language = <<>> THEN Chars("code") ELSE language) \o <<"\n">> \o code
        \o <<"\n">> \o BT3
BlockReplacer(language, code) ==
    BT3 \o (IF language = <<>> THEN Chars("code") ELSE language) \o <<"\n">> \o Trim(code)
        \o <<"\n">> \o BT3
BlocksMatch(text, from, match) ==
    IF ~match.found THEN SliceFrom(text, from)
    ELSE Slice(text, from, match.index)
         \o BlockReplacer(Slice(text, match.index + 3, NewlineAt(text, match.index + 3)),
                          Slice(text, NewlineAt(text, match.index + 3) + 1, match.end - 3))
         \o BlocksFrom(text, match.end)
BlocksFrom(text, from) == BlocksMatch(text, from, Exec(BlockPattern, Ctx(text, FALSE, FALSE), from))
\* `([^`]+)`
InlineCodePattern == Cat(<<LitSeq(<<BT>>), Plus(NotIn({BT})), LitSeq(<<BT>>)>>)
formatCodeBlocks(text) ==
    ReplaceFrom(BlocksFrom(text, 0), 0, InlineCodePattern, 1, <<BT>>, <<BT>>)

\* ^(#{1,3})\s+(.+)$, ^(\d+\.)\s+(.+)$ and ^[-*]\s+(.+)$ with the flags gm:
\* lead is the first group or the bullet, and the line is rewritten as
\* mark, one space, and the last group.
Hashes == Cat(<<Lit("#"), AtMost(In({"#"}), 2)>>)
Numbered == Cat(<<Plus(In(Digits)), Lit(".")>>)
Bullet == In({"-", "*"})
LinePattern(lead) == Cat(<<Bol, lead, Sp, Plus(Dot), Eol>>)
\* Where the last group begins: \s+ takes all the white space it can while
\* leaving (.+) a character of the line.
GroupAt(text, leadEnd, end) ==
    Greatest({j \in (leadEnd + 1)..(end - 1) :
                 /\ \A k \in (leadEnd + 1)..j : text[k] \in SpaceChars
                 /\ \A k \in (j + 1)..end : text[k] \notin {"\n", "\r"}})
\* Where the lead ends.
LeadEnd(text, lead, index) == Match(<<lead>>, Ctx(text, FALSE, TRUE), index)
RECURSIVE LinesFromOffset(_, _, _, _)
LinesMatch(text, from, lead, bullet, match) ==
    IF ~match.found THEN SliceFrom(text, from)
    ELSE Slice(text, from, match.index)
         \o (IF bullet THEN <<BulletSign>>
             ELSE Slice(text, match.index, LeadEnd(text, lead, match.index)))
         \o <<" ">>
         \o Slice(text, GroupAt(text, LeadEnd(text, lead, match.index), match.end), match.end)
         \o LinesFromOffset(text, match.end, lead, bullet)
LinesFromOffset(text, from, lead, bullet) ==
    LinesMatch(text, from, lead, bullet,
               Exec(LinePattern(lead), Ctx(text, FALSE, TRUE), from))
\* \*\*([^*]+)\*\* and \*([^*]+)\*
StrongPattern == Cat(<<Lit("**"), Plus(NotIn({"*"})), Lit("**")>>)
EmPattern == Cat(<<Lit("*"), Plus(NotIn({"*"})), Lit("*")>>)
enhanceFormatting(text) ==
    ReplaceFrom(ReplaceFrom(
        LinesFromOffset(LinesFromOffset(LinesFromOffset(text,
            0, Hashes, FALSE), 0, Numbered, FALSE), 0, Bullet, TRUE),
        0, StrongPattern, 2, Chars("**"), Chars("**")),
        0, EmPattern, 1, Chars("*"), Chars("*"))

\* generateAIResponse on a string response: the four stages in order.
Decoded(enhanced, rescued) ==
    [enhanced |-> enhanced, rescued |-> rescued, out |-> decodeHtmlEntities(rescued)]
Rescued(enhanced) == Decoded(enhanced, processFormulas(enhanced))
postProcess(text) == Rescued(enhanceFormatting(formatCodeBlocks(text)))

\* The parts of a complete response.
FormulaBlock == BT3 \o Chars("javascript\nF = m * a\n") \o BT3
PlainBlock == BT3 \o Chars("javascript\nhello\n") \o BT3
Parts == {FormulaBlock, PlainBlock, Chars("&amp;"), Chars("&amp;amp;"), Chars("gpt"),
          Chars("penrouter"), Chars("api key")}
ReplyTexts == {Flatten(ps) : ps \in SeqsUpTo(Parts, MaxParts)} \ {<<>>}

\* generateAIResponse holds a complete response text.
ReceiveResponse(text) ==
    /\ aiResponse = <<>>
    /\ aiResponse' = text
    /\ UNCHANGED <<passes, filtered, chatVars, rendererVars, guardVars, utilVars>>

\* The post-processing of generateAIResponse, applied to the response and
\* then to its own result.
PostProcess ==
    /\ aiResponse # <<>>
    /\ Len(passes) < 2
    /\ ~filtered.done
    /\ passes' = Append(passes, postProcess(IF passes = <<>> THEN aiResponse
                                            ELSE passes[Len(passes)].out))
    /\ UNCHANGED <<aiResponse, filtered, chatVars, rendererVars, guardVars, utilVars>>

FilterSensitiveResponse ==
    /\ aiResponse # <<>>
    /\ passes = <<>>
    /\ ~filtered.done
    /\ filtered' = [done |-> TRUE, text |-> filterSensitiveResponse(aiResponse)]
    /\ UNCHANGED <<aiResponse, passes, chatVars, rendererVars, guardVars, utilVars>>

NextReply ==
    \/ \E text \in ReplyTexts : ReceiveResponse(text)
    \/ PostProcess
    \/ FilterSensitiveResponse

SpecReply == Init /\ [][NextReply]_vars

\* ------------------------------------- detectLanguage and detectInlineCode
RECURSIVE JoinWith(_, _)
JoinWith(parts, sep) ==
    IF parts = <<>> THEN <<>>
    ELSE IF Len(parts) = 1 THEN parts[1]
    ELSE parts[1] \o sep \o JoinWith(Tail(parts), sep)
\* Code snippets: idioms of each language, joined by a space.
SnippetPieces ==
    {Chars("<b>"), Chars("</p>"), Chars(".a{"), Chars("print("), Chars("let x"),
     Chars(":string"), Chars("public class"), Chars("drop"), Chars("[1]"),
     Chars("{\"a\":1}"), Chars("hi")}
Snippets == {JoinWith(ps, <<" ">>) : ps \in SeqsUpTo(SnippetPieces, MaxSnippets)}
\* Unfenced texts: lines of code, of prose and of LaTeX.
LinePieces ==
    {Chars("x = 1"), Chars("y = \\frac{a}{b} + c"), Chars("z = \\alpha"), Chars("\\["),
     Chars("$$"), Chars("so we get")}
InlineTexts == {JoinWith(ls, <<"\n">>) : ls \in SeqsUpTo(LinePieces, MaxSnippets)}

\* A run follows one call, of detectLanguage or of detectInlineCode.
ReceiveCode(text) ==
    /\ snippet = <<>>
    /\ languageTag = NoLanguageYet
    /\ inlineText = <<>>
    /\ ~codeBlocks.done
    /\ snippet' = text
    /\ UNCHANGED <<languageTag, inlineText, codeBlocks, chatVars, rendererVars, guardVars,
                   replyVars, sanitizerVars, rateVars>>

DetectLanguage ==
    /\ languageTag = NoLanguageYet
    /\ inlineText = <<>>
    /\ ~codeBlocks.done
    /\ languageTag' = detectLanguage(snippet)
    /\ UNCHANGED <<snippet, inlineText, codeBlocks, chatVars, rendererVars, guardVars,
                   replyVars, sanitizerVars, rateVars>>

ReceiveText(text) ==
    /\ inlineText = <<>>
    /\ ~codeBlocks.done
    /\ snippet = <<>>
    /\ languageTag = NoLanguageYet
    /\ inlineText' = text
    /\ UNCHANGED <<snippet, languageTag, codeBlocks, chatVars, rendererVars, guardVars,
                   replyVars, sanitizerVars, rateVars>>

DetectInlineCode ==
    /\ ~codeBlocks.done
    /\ snippet = <<>>
    /\ languageTag = NoLanguageYet
    /\ codeBlocks' = [done |-> TRUE, blocks |-> detectInlineCode(inlineText)]
    /\ UNCHANGED <<snippet, languageTag, inlineText, chatVars, rendererVars, guardVars,
                   replyVars, sanitizerVars, rateVars>>

NextDetect ==
    \/ \E text \in Snippets : ReceiveCode(text)
    \/ DetectLanguage
    \/ \E text \in InlineTexts : ReceiveText(text)
    \/ DetectInlineCode

SpecDetect == Init /\ [][NextDetect]_vars

\* ------------------------------------------------ utils/inputSanitizer.ts
ScriptTag ==
    Cat(<<Lit("<script"), Star(NotIn({">"})), Lit(">"), LazyStar(Dot), Lit("</script>")>>)
IframeTag ==
    Cat(<<Lit("<iframe"), Star(NotIn({">"})), Lit(">"), LazyStar(Dot), Lit("</iframe>")>>)
JavascriptProtocol == Lit("javascript:")
EventHandler == Cat(<<Lit("on"), Plus(WordCh), Star(SpaceCh), Lit("=")>>)
EmbedTag == Cat(<<Lit("<embed"), Star(NotIn({">"})), Lit(">")>>)
ObjectOpenTag == Cat(<<Lit("<object"), Star(NotIn({">"})), Lit(">")>>)
XSS_PATTERNS ==
    <<ScriptTag, IframeTag, JavascriptProtocol, EventHandler, EmbedTag, ObjectOpenTag>>

\* RegExp.prototype.test of a pattern with the g flag: the search starts at
\* the pattern's lastIndex, which a match moves to its end and a failure to 0.
TestedMatch(match) ==
    IF match.found THEN [result |-> TRUE, lastIndex |-> match.end]
    ELSE [result |-> FALSE, lastIndex |-> 0]
TestGlobal(r, text, lastIndex) ==
    IF lastIndex > Len(text) THEN [result |-> FALSE, lastIndex |-> 0]
    ELSE TestedMatch(Exec(r, Ctx(text, TRUE, FALSE), lastIndex))

RECURSIVE SomeFrom(_, _, _)
SomeTested(k, text, indexes, tested) ==
    IF tested.result
        THEN [result |-> TRUE, lastIndex |-> [indexes EXCEPT ![k] = tested.lastIndex]]
    ELSE SomeFrom(k + 1, text, [indexes EXCEPT ![k] = tested.lastIndex])
SomeFrom(k, text, indexes) ==
    IF k > Len(XSS_PATTERNS) THEN [result |-> FALSE, lastIndex |-> indexes]
    ELSE SomeTested(k, text, indexes, TestGlobal(XSS_PATTERNS[k], text, indexes[k]))
containsXSS(text, indexes) == SomeFrom(1, text, indexes)

QuotedHandler ==
    Cat(<<Lit("on"), Plus(WordCh), Star(SpaceCh), Lit("="), Star(SpaceCh), In({"\"", "'"}),
          Star(NotIn({"\"", "'"})), In({"\"", "'"})>>)
ObjectTag ==
    Cat(<<Lit("<object"), Star(NotIn({">"})), Lit(">"), LazyStar(Dot), Lit("</object>")>>)
stripXSS(text) ==
    ReplacedEach(text,
                 <<ScriptTag, IframeTag, QuotedHandler, JavascriptProtocol, EmbedTag,
                   ObjectTag>>,
                 <<>>)

CodeFence == Cat(<<LitSeq(BT3), LazyStar(AnyChar), LitSeq(BT3)>>)
RECURSIVE Decimal(_)
Decimal(n) ==
    IF n < 10 THEN <<Chars("0123456789")[n + 1]>>
    ELSE Decimal(n \div 10) \o <<Chars("0123456789")[(n % 10) + 1]>>
Placeholder(n) == Chars("__CODE_BLOCK_") \o Decimal(n) \o Chars("__")

\* text.replace(/```[\s\S]*?```/g, match => ...): the blocks pushed and the text left.
RECURSIVE ExtractedBlocks(_, _)
ExtractedBlocksMatch(s, match) ==
    IF ~match.found THEN <<>>
    ELSE <<Slice(s, match.index, match.end)>> \o ExtractedBlocks(s, match.end)
ExtractedBlocks(s, from) == ExtractedBlocksMatch(s, Exec(CodeFence, Ctx(s, FALSE, FALSE), from))
RECURSIVE Placeheld(_, _, _)
PlaceheldMatch(s, from, n, match) ==
    IF ~match.found THEN SliceFrom(s, from)
    ELSE Slice(s, from, match.index) \o Placeholder(n) \o Placeheld(s, match.end, n + 1)
Placeheld(s, from, n) == PlaceheldMatch(s, from, n, Exec(CodeFence, Ctx(s, FALSE, FALSE), from))

\* String.prototype.replace with a string pattern and a string replacement:
\* the first occurrence only, and $$, $&, $` and $' expanded in the replacement.
Occurrences(s, pattern) ==
    {i \in 0..(Len(s) - Len(pattern)) : Slice(s, i, i + Len(pattern)) = pattern}
RECURSIVE Substitution(_, _, _, _)
Substitution(replacement, before, matched, after) ==
    IF replacement = <<>> THEN <<>>
    ELSE IF replacement[1] = "$" /\ Len(replacement) >= 2 /\ replacement[2] = "$"
        THEN <<"$">> \o Substitution(SliceFrom(replacement, 2), before, matched, after)
    ELSE IF replacement[1] = "$" /\ Len(replacement) >= 2 /\ replacement[2] = "&"
        THEN matched \o Substitution(SliceFrom(replacement, 2), before, matched, after)
    ELSE IF replacement[1] = "$" /\ Len(replacement) >= 2 /\ replacement[2] = BT
        THEN before \o Substitution(SliceFrom(replacement, 2), before, matched, after)
    ELSE IF replacement[1] = "$" /\ Len(replacement) >= 2 /\ replacement[2] = "'"
        THEN after \o Substitution(SliceFrom(replacement, 2), before, matched, after)
    ELSE <<replacement[1]>> \o Substitution(Tail(replacement), before, matched, after)
ReplacedStringAt(s, pattern, replacement, at) ==
    Slice(s, 0, at)
        \o Substitution(replacement, Slice(s, 0, at), pattern, SliceFrom(s, at + Len(pattern)))
        \o SliceFrom(s, at + Len(pattern))
ReplacedString(s, pattern, replacement) ==
    IF Occurrences(s, pattern) = {} THEN s
    ELSE ReplacedStringAt(s, pattern, replacement, Least(Occurrences(s, pattern)))

RECURSIVE Restored(_, _, _)
Restored(sanitized, blocks, index) ==
    IF index >= Len(blocks) THEN sanitized
    ELSE Restored(ReplacedString(sanitized, Placeholder(index), blocks[index + 1]),
                  blocks, index + 1)
stripXSSPreserveCode(text) ==
    Restored(stripXSS(Placeheld(text, 0, 0)), ExtractedBlocks(text, 0), 0)

ChatMessageLimit == 10000
sanitizeChatMessage(text) ==
    IF text = <<>> THEN <<>>
    ELSE IF Len(Trim(text)) > ChatMessageLimit
        THEN stripXSSPreserveCode(Slice(Trim(text), 0, ChatMessageLimit))
    ELSE stripXSSPreserveCode(Trim(text))

MessagePieces ==
    {BT3, Chars("x"), Chars("$$"), Placeholder(0), Chars("<embed>"), Chars("javascript:")}
ChatMessages == {Flatten(ps) : ps \in SeqsUpTo(MessagePieces, MaxMessageParts)}
XssTexts ==
    {Chars("hi"), Chars("javascript:"), Chars("onload= javascript:"), Chars("<embed>")}

\* A run follows calls of one function, sanitizeChatMessage or containsXSS.
SanitizeChatMessage(text) ==
    /\ ~sanitizedMessage.done
    /\ xssCalls = <<>>
    /\ message' = text
    /\ sanitizedMessage' = [done |-> TRUE, text |-> sanitizeChatMessage(text)]
    /\ UNCHANGED <<patternIndex, xssCalls, chatVars, rendererVars, guardVars, replyVars,
                   detectVars, rateVars>>

ContainsXSSReturns(text, out) ==
    /\ patternIndex' = out.lastIndex
    /\ xssCalls' = Append(xssCalls, [text |-> text, result |-> out.result])
ContainsXSS(text) ==
    /\ ~sanitizedMessage.done
    /\ Len(xssCalls) < MaxCalls
    /\ ContainsXSSReturns(text, containsXSS(text, patternIndex))
    /\ UNCHANGED <<message, sanitizedMessage, chatVars, rendererVars, guardVars, replyVars,
                   detectVars, rateVars>>

NextSanitize ==
    \/ \E text \in ChatMessages : SanitizeChatMessage(text)
    \/ \E text \in XssTexts : ContainsXSS(text)

SpecSanitize == Init /\ [][NextSanitize]_vars

\* ------------------------------------------------- checkRateLimit
Record(count, firstAttempt) == [present |-> TRUE, count |-> count, firstAttempt |-> firstAttempt]
Outcome(result, data) == [result |-> result, stored |-> data]
LimitPassed(data) == data.count > maxAttempts
LimitReached(data) == data.count >= maxAttempts
checkRateLimit(data, t) ==
    IF ~data.present THEN Outcome(TRUE, Record(1, t))
    ELSE IF t - data.firstAttempt > windowMs THEN Outcome(TRUE, Record(1, t))
    ELSE IF LimitReached(data) THEN Outcome(FALSE, data)
    ELSE Outcome(TRUE, Record(data.count + 1, data.firstAttempt))

\* The history of allowed calls: since the first allowed call of the running
\* window of windowMs, and since the stored record was created.
Counted(out, t) ==
    IF ~out.result THEN allowed
    ELSE [open |-> TRUE,
          start |-> IF allowed.open /\ t - allowed.start <= windowMs
                        THEN allowed.start ELSE t,
          sinceStart |-> IF allowed.open /\ t - allowed.start <= windowMs
                             THEN allowed.sinceStart + 1 ELSE 1,
          sinceRecord |-> IF out.stored.count = 1 THEN 1 ELSE allowed.sinceRecord + 1]
CheckReturns(out) ==
    /\ stored' = out.stored
    /\ lastCheck' = [result |-> out.result, before |-> stored, after |-> out.stored]
    /\ allowed' = Counted(out, now)
CheckRateLimit ==
    /\ Counted(checkRateLimit(stored, now), now).sinceStart <= MaxAllowed
    /\ CheckReturns(checkRateLimit(stored, now))
    /\ UNCHANGED <<now, chatVars, rendererVars, guardVars, replyVars, detectVars,
                   sanitizerVars>>

ResetRateLimit ==
    /\ stored' = NoRecord
    /\ UNCHANGED <<now, allowed, lastCheck, chatVars, rendererVars, guardVars, replyVars,
                   detectVars, sanitizerVars>>

\* Date.now() moves on between calls.
Tick ==
    /\ now < MaxNow
    /\ now' = now + 1
    /\ UNCHANGED <<stored, allowed, lastCheck, chatVars, rendererVars, guardVars, replyVars,
                   detectVars, sanitizerVars>>

NextRate ==
    \/ CheckRateLimit
    \/ ResetRateLimit
    \/ Tick

SpecRate == Init /\ [][NextRate]_vars

\* ------------------------------------------------------------- the claims
\* Turn t has a provider request pending or a stream being read.
InFlight(t) == pc[t] \in {"scraping", "groq", "deepseek", "reading"}

\* C1: whenever a turn has been started while an earlier turn was still
\* pending or streaming, the earlier turn's transport has been aborted: at
\* most one response is in flight.
C1_PriorTurnAborted ==
    \A t1, t2 \in Turn :
        (t1 < t2 /\ InFlight(t1) /\ pc[t2] # "idle") => aborted[t1]

\* C2: once handleStopResponse has run while a turn's stream was being read,
\* the AI message of that turn is never updated again.
C2_NoUpdateAfterStop ==
    [][\A t \in Turn : stopSeen[t] => aiMessage'[t] = aiMessage[t]]_vars

\* C3: a turn whose controller was aborted ends showing exactly the text
\* accumulated before the cancellation, never an error or apology text.
C3_CancelKeepsPartialText ==
    \A t \in Turn :
        (aborted[t] /\ pc[t] = "done") => aiMessage[t].content = accumulatedContent[t]

\* C4: of the contents pushed to the consumer for one response, each earlier
\* one is a prefix of each later one.
C4_UpdatesGrow ==
    \A t \in Turn : \A i, j \in 1..Len(updates[t]) :
        i <= j => IsPrefix(updates[t][i], updates[t][j])

C4_Witness ==
    /\ Len(updates[1]) = 3
    /\ updates[1][2] = <<"a">>
    /\ updates[1][3] = <<"a", CharTwoByte>>

\* C5: no delta is appended to the accumulated text after a data: [DONE] line
\* of the same stream has been processed.
C5_NothingAfterDone == \A t \in Turn : ~lateDelta[t]

\* C6: the accumulated text is the in-order concatenation of the valid deltas
\* among the lines read so far, whatever lines with invalid JSON came between
\* them, and such a line does not end the read loop.
C6_BrokenLineSkipped ==
    \A t \in Turn :
        /\ accumulatedContent[t] = expected[t]
        /\ (sawBroken[t] /\ wire[t] # <<>>) => pc[t] = "reading"

C6_Witness ==
    /\ sawBroken[1]
    /\ healed[1]
    /\ accumulatedContent[1] = <<"a", CharTwoByte>>

\* Helpers of the parser claims.
HasClosedFence(s) == Exec(CODE_BLOCK_REGEX, Ctx(s, FALSE, FALSE), 0).found
\* Number of segments up to the last fenced code segment of a render.
ClosedCount(r) ==
    IF HasClosedFence(r.content)
    THEN Greatest({0} \cup {k \in 1..Len(r.parsed.segments) : r.parsed.segments[k].type = "code"})
    ELSE 0
SamePrefix(old, new, n) == n <= Len(new) /\ SubSeq(new, 1, n) = SubSeq(old, 1, n)
IsInfix(part, s) ==
    \E i \in 0..(Len(s) - Len(part)) : SubSeq(s, i + 1, i + Len(part)) = part
RECURSIVE IsSubsequence(_, _, _, _)
IsSubsequence(a, i, b, j) ==
    IF i > Len(a) THEN TRUE
    ELSE IF j > Len(b) THEN FALSE
    ELSE IF a[i] = b[j] THEN IsSubsequence(a, i + 1, b, j + 1)
    ELSE IsSubsequence(a, i, b, j + 1)
\* A text without white space, fence marker characters and emphasis markers.
Ink(s) == SelectSeq(s, LAMBDA ch : ch \notin SpaceChars \cup {BT, "~", "*"})
\* The segments' contents in order.
Cover(items) == Flatten([k \in 1..Len(items) |-> items[k].content])
\* The text with every fenced block replaced by its body: without the
\* markers and the opening line.
RECURSIVE Unfenced(_, _)
UnfencedMatch(s, from, match) ==
    IF ~match.found THEN SliceFrom(s, from)
    ELSE Slice(s, from, match.index)
         \o Slice(s, NewlineAt(s, match.index + 3) + 1, match.end - 3)
         \o Unfenced(s, match.end)
Unfenced(s, from) == UnfencedMatch(s, from, Exec(CODE_BLOCK_REGEX, Ctx(s, FALSE, FALSE), from))
RangesInOrder(items) ==
    /\ \A k \in 1..Len(items) : items[k].from <= items[k].to
    /\ \A k \in 1..(Len(items) - 1) : items[k].to <= items[k + 1].from
ContentFromRange(s, items) ==
    \A k \in 1..Len(items) :
        IF items[k].type = "code"
        THEN IsInfix(items[k].content, Slice(s, items[k].from, items[k].to))
        ELSE items[k].content = sanitizeInlineHtml(Trim(Slice(s, items[k].from, items[k].to)))
RunsDisjoint(blocks) ==
    \A k \in 1..(Len(blocks) - 1) : blocks[k].end <= blocks[k + 1].start

\* C7: once a fenced block is closed in the accumulated text, its code
\* segment and every segment before it keep their position, content and
\* language in the parse of every later accumulated text.
C7_ClosedBlocksStable ==
    \A k \in 1..Len(renders) :
        SamePrefix(renders[k].parsed.segments, renders[Len(renders)].parsed.segments,
                   ClosedCount(renders[k]))

\* C8: every parse has at least one segment, and the parse of an empty or
\* white-space-only text is exactly one text segment with empty content and
\* hasCode false.
C8_AtLeastOneSegment ==
    \A k \in 1..Len(renders) :
        /\ Len(renders[k].parsed.segments) >= 1
        /\ Trim(renders[k].content) = <<>> =>
              /\ renders[k].parsed.segments = <<Seg("text", <<>>, NoLanguage)>>
              /\ ~renders[k].parsed.hasCode

\* C9: the segments of a parse are cut from ranges of the source that follow
\* one another without overlap, each segment's content coming from its own
\* range, and the runs detectInlineCode reports never overlap.
C9_SegmentsAreDisjointRanges ==
    renders # <<>> =>
        /\ RangesInOrder(ParseItems(messageText))
        /\ ContentFromRange(messageText, ParseItems(messageText))
        /\ RunsDisjoint(detectInlineCode(messageText))

\* C10: nothing of the source is missing from the segments except white
\* space, fence markers with their opening line, and inline markup: the
\* source's remaining characters occur, in order, in the segments' contents.
C10_SegmentsCoverSource ==
    renders # <<>> =>
        IsSubsequence(Ink(DecodeEntities(Unfenced(messageText, 0))), 1,
                      Ink(Cover(ParseItems(messageText))), 1)

\* C11: what a streamed response shows is the output filter's result on the
\* text the model has generated so far.
C11_ShownTextIsFiltered ==
    \A t \in Turn :
        readerLock[t] # "none" => aiMessage[t].content = filterSensitiveResponse(expected[t])

\* C12: when validateMessage rejects the last message, sendToNvidiaAPI calls
\* no provider handler and returns one of the canned refusals, the one about
\* the system configuration exactly when the verdict's type is system_prompt.
C12_RejectedIsRefused ==
    response # NoResponse =>
        /\ validation = validateMessage(lastUserMessage)
        /\ ~validation.isValid =>
              /\ handlerCalls = <<>>
              /\ response.type = "string"
              /\ response.text \in {SystemPromptRefusal} \cup Range(responses)
              /\ response.text = SystemPromptRefusal
                    <=> validation.injectionType = "system_prompt"

C12_Witness ==
    /\ ~validation.isValid
    /\ validation.injectionType = "system_prompt"
    /\ response = StringResponse(SystemPromptRefusal)

\* C13: validateMessage gives the reason message_too_long to exactly the
\* texts of more than 10,000 characters, whatever they contain.
C13_TooLongIffOverLimit ==
    response # NoResponse =>
        (Length(lastUserMessage) > MessageLimit
            <=> (~validation.isValid /\ validation.reason = "message_too_long"))

\* C14: the type is system_prompt exactly for the inputs that match a pattern
\* of the table's groups 'direct system prompt extraction' and 'prompt
\* leaking', whatever else they match.
ExtractionPatterns ==
    SubSeq(INJECTION_PATTERNS, 1, 6)
        \o SubSeq(INJECTION_PATTERNS, Len(INJECTION_PATTERNS) - 1, Len(INJECTION_PATTERNS))
C14_SystemPromptHasPriority ==
    response # NoResponse =>
        (validation.injectionType = "system_prompt"
            <=> AnyTestI(ExtractionPatterns, Trim(lastUserMessage)))

\* C15, as stated: an input with more than 10 structural characters is
\* detected and its type is general; 10 of them alone are not detected.
OnlySpecial(s) == \A i \in 1..Len(s) : s[i] \in SpecialChars \cup {Filler}
CountRule(s, general) ==
    /\ specialCharCount(s) > SpecialCharLimit =>
          /\ validation.reason = "prompt_injection_detected"
          /\ general
    /\ (specialCharCount(s) <= SpecialCharLimit /\ OnlySpecial(s)) =>
          validation.reason # "prompt_injection_detected"
C15_CountAlwaysGeneral ==
    response # NoResponse =>
        CountRule(Trim(lastUserMessage), validation.injectionType = "general")

\* C15, amended: an input with more than 10 structural characters is
\* detected, and its type is general unless it matches one of the patterns
\* tested first, which make it system_prompt; 10 alone are not detected.
C15_CountRule ==
    response # NoResponse =>
        CountRule(Trim(lastUserMessage),
                  IF AnyTestI(SystemPromptChecks, Trim(lastUserMessage))
                  THEN validation.injectionType = "system_prompt"
                  ELSE validation.injectionType = "general")

C15_Witness ==
    /\ response # NoResponse
    /\ lastUserMessage = Chars("<>{}[]\\|<>{")
    /\ validation.injectionType = "general"

\* C16: the filter's result holds none of the backend names it replaces and
\* none of the credential words, in any letter case.
Identifiers ==
    <<Lit("deepseek"), Lit("groq"), Lit("llama"), Lit("gpt"), Lit("claude"),
      Lit("openrouter"), Lit("api key"), Lit("bearer token"), Lit("authorization")>>
C16_NoIdentifierLeft == filtered.done => ~AnyTestI(Identifiers, filtered.text)

C16_Witness ==
    /\ filtered.done
    /\ aiResponse = Chars("gptpenrouter")
    /\ filtered.text = Chars("intgour AI service")

\* C17: of a valid message the handlers are called in the order Groq,
\* DeepSeek, each only after every earlier one failed; the stream of the
\* first that succeeds is returned, and the static apology when all failed.
C17_ProvidersInOrder ==
    (response # NoResponse /\ validation.isValid) =>
        /\ handlerCalls # <<>>
        /\ IsPrefix([k \in 1..Len(handlerCalls) |-> handlerCalls[k].provider],
                    <<"Groq", "DeepSeek">>)
        /\ \A k \in 1..(Len(handlerCalls) - 1) : handlerCalls[k].outcome # "body"
        /\ IF handlerCalls[Len(handlerCalls)].outcome = "body"
           THEN response = StreamResponse(handlerCalls[Len(handlerCalls)].provider)
           ELSE Len(handlerCalls) = 2 /\ response = StringResponse(ApologyText)

C17_Witness ==
    /\ validation.isValid
    /\ handlerCalls = <<[provider |-> "Groq", outcome |-> "error status"],
                        [provider |-> "DeepSeek", outcome |-> "body"]>>
    /\ response = StreamResponse("DeepSeek")

\* C18: the reader lock is held exactly while the read loop runs and has
\* been released exactly once when the turn has ended, however the loop ended.
C18_LockReleasedOnce ==
    \A t \in Turn :
        /\ releases[t] <= 1
        /\ readerLock[t] = "held" <=> pc[t] = "reading"
        /\ (pc[t] = "done" /\ readerLock[t] # "none") =>
              (readerLock[t] = "released" /\ releases[t] = 1)

C18_Witness ==
    /\ pc[1] = "done"
    /\ doneSeen[1]
    /\ aborted[1]
    /\ releases[1] = 1

\* C19, as stated: post-processing the result of post-processing changes
\* nothing, for every response that holds a fenced formula and an entity.
Entities ==
    <<Lit("&amp;"), Lit("&lt;"), Lit("&gt;"), Lit("&quot;"), Lit("&#39;"), Lit("&nbsp;"),
      Lit("&copy;"), Lit("&reg;")>>
HasEntity(s) == \E k \in 1..Len(Entities) : Test(Entities[k], s)
RECURSIVE BlockRanges(_, _)
BlockRangesMatch(t, match) ==
    IF ~match.found THEN <<>> ELSE <<match>> \o BlockRanges(t, match.end)
BlockRanges(t, from) == BlockRangesMatch(t, Exec(Fence(BT3), Ctx(t, FALSE, FALSE), from))
MathBlock(body) == Chars("\n\\[\n") \o Trim(body) \o Chars("\n\\]\n")
BlockRule(t, out, index, nl, end) ==
    /\ (/\ Slice(t, index + 3, nl) = Chars("javascript")
        /\ "=" \in Range(Slice(t, nl + 1, end - 3))
        /\ t[end - 3] = "\n")
          => /\ IsInfix(MathBlock(Slice(t, nl + 1, end - 3)), out)
             /\ ~IsInfix(Slice(t, index, end), out)
    /\ Range(Slice(t, nl + 1, end - 3)) \cap {"=", "+", "-", "*", "/", "^", "\\"} = {}
          => IsInfix(Slice(t, index, end), out)
BlocksRule(t, out, ranges) ==
    \A k \in 1..Len(ranges) :
        BlockRule(t, out, ranges[k].index, NewlineAt(t, ranges[k].index + 3), ranges[k].end)
C20_FormulaRescue ==
    \A k \in 1..Len(passes) :
        BlocksRule(passes[k].enhanced, passes[k].rescued, BlockRanges(passes[k].enhanced, 0))

C20_Witness ==
    /\ aiResponse = PlainBlock \o FormulaBlock
    /\ Len(passes) = 1
    /\ passes[1].rescued = PlainBlock \o MathBlock(Chars("F = m * a"))

C27_ControllerOfTurnInFlight ==
    \A t \in Turn : (InFlight(t) /\ ~aborted[t]) => abortController = t

\* C26: once the whole body has been read, in whatever chunks, the
\* accumulated text is the concatenation of the deltas of the body's frames.
C26_ChunkingIndependent ==
    \A t \in Turn :
        (pc[t] = "reading" /\ wire[t] = <<>>) =>
            accumulatedContent[t] = bodyDeltas[t]

\* C23, as stated: when the text after the last closed fence holds a fence
\* marker, no code segment is cut from the marker or from the text after it.
MarkerOffsets(s, from) == {i \in from..(Len(s) - 3) : Slice(s, i, i + 3) \in {BT3, TL3}}
Unterminated(s, fenced) == Trim(s) # <<>> /\ MarkerOffsets(s, fenced.lastIndex) # {}
TextFrom(items, offset) ==
    \A k \in 1..Len(items) : items[k].type = "code" => items[k].to <= offset
TextAfterMarker(s, fenced) ==
    Unterminated(s, fenced) =>
        TextFrom(Remaining(s, fenced), Least(MarkerOffsets(s, fenced.lastIndex)))
InlineOnly(rest, hasCodeBlock, items, blocks) ==
    \A k \in 1..Len(items) :
        items[k].type = "code" =>
            /\ ~hasCodeBlock
            /\ isCodingRelated(rest)
            /\ \E b \in 1..Len(blocks) :
                  /\ items[k].content = blocks[b].code
                  /\ items[k].language = detectLanguage(blocks[b].code)
RemainderRule(s, fenced) ==
    Unterminated(s, fenced) =>
        InlineOnly(SliceFrom(s, fenced.lastIndex), fenced.hasCodeBlock,
                   Remaining(s, fenced), detectInlineCode(SliceFrom(s, fenced.lastIndex)))
Rule(matches, tag) == [matches |-> matches, tag |-> Chars(tag)]
Rules(c) ==
    <<Rule(Test(ReactPattern, c) /\ Test(TsxPattern, c), "tsx"),
      Rule(Test(ReactPattern, c), "jsx"),
      Rule(TestI(HtmlOpenPattern, c) /\ TestI(HtmlClosePattern, c), "html"),
      Rule(Test(CssPattern, c), "css"),
      Rule(Test(PythonPattern, c), "python"),
      Rule(Test(JsPattern, c) /\ Test(TsPattern, c), "typescript"),
      Rule(Test(JsPattern, c), "javascript"),
      Rule(Test(JavaPattern, c), "java"),
      Rule(TestI(SqlPattern, c), "sql"),
      Rule(/\ Test(JsonOpenPattern, Trim(c)) /\ Test(JsonClosePattern, Trim(c))
           /\ JSONparseOk(c), "json"),
      Rule(TRUE, "javascript")>>
FirstMatch(rules) == rules[Least({k \in 1..Len(rules) : rules[k].matches})].tag
C21_FirstRuleWins == languageTag # NoLanguageYet => languageTag = FirstMatch(Rules(snippet))

C21_Witness ==
    /\ snippet = Chars("print( drop")
    /\ languageTag = Chars("python")

\* C22: a snippet that is a JSON document in brackets or braces and holds no
\* markup, CSS selector or at-rule, Python, JS/TS, Java or SQL idiom is json.
CssSelectorOrAtRule == Alt(SubSeq(CssPattern.rs, 2, Len(CssPattern.rs)))
JsonShaped(c) ==
    /\ Test(JsonOpenPattern, Trim(c))
    /\ Test(JsonClosePattern, Trim(c))
    /\ JSONparseOk(c)
NoOtherIdiom(c) ==
    /\ ~Test(ReactPattern, c)
    /\ ~(TestI(HtmlOpenPattern, c) /\ TestI(HtmlClosePattern, c))
    /\ ~Test(CssSelectorOrAtRule, c)
    /\ ~Test(PythonPattern, c)
    /\ ~Test(JsPattern, c)
    /\ ~Test(JavaPattern, c)
    /\ ~TestI(SqlPattern, c)
C22_JsonIsJson ==
    (languageTag # NoLanguageYet /\ JsonShaped(snippet) /\ NoOtherIdiom(snippet)) =>
        languageTag = Chars("json")

\* C24: no line of a detected code block holds LaTeX math.
LatexMacro == Cat(<<Lit("\\"), Plus(In(Lowers \cup Uppers))>>)
HasLatex(line) ==
    Test(LatexDelimiter, line) \/ Test(Lit("$$"), line) \/ Test(LatexMacro, line)
NoLatexLine(lines) == \A k \in 1..Len(lines) : ~HasLatex(lines[k])
C24_NoLatexInCode ==
    \A b \in 1..Len(codeBlocks.blocks) :
        NoLatexLine(SplitOn(codeBlocks.blocks[b].code, "\n"))

\* C25: stripXSSPreserveCode returns every fenced block verbatim at its
\* position, with the XSS patterns stripped from the text around the blocks.
RECURSIVE PreservedFrom(_, _)
PreservedMatch(s, from, match) ==
    IF ~match.found THEN stripXSS(SliceFrom(s, from))
    ELSE stripXSS(Slice(s, from, match.index)) \o Slice(s, match.index, match.end)
            \o PreservedFrom(s, match.end)
PreservedFrom(s, from) == PreservedMatch(s, from, Exec(CodeFence, Ctx(s, FALSE, FALSE), from))
C25_BlocksPreserved ==
    sanitizedMessage.done => sanitizedMessage.text = PreservedFrom(Trim(message), 0)

\* C29: two calls of containsXSS on the same text return the same boolean.
C29_SameTextSameResult ==
    \A i, j \in 1..Len(xssCalls) :
        xssCalls[i].text = xssCalls[j].text => xssCalls[i].result = xssCalls[j].result

\* C30 as written: at most maxAttempts calls are allowed between the first
\* allowed call of a window and the time that window expires; the stored count
\* never exceeds maxAttempts; a denied call leaves the record as it was.
CountWithinLimit == stored.present => stored.count <= maxAttempts
DeniedLeavesRecord == ~lastCheck.result => lastCheck.after = lastCheck.before
C30_AtMostPerWindow ==
    /\ allowed.sinceStart <= maxAttempts
    /\ CountWithinLimit
    /\ DeniedLeavesRecord

\* C30 amended: at most maxAttempts calls are allowed between the creation of
\* the stored record and its expiry or its removal by resetRateLimit; the
\* stored count is the number of those calls and never exceeds maxAttempts; a
\* denied call leaves the record as it was.
C30_AtMostPerRecord ==
    /\ stored.present => allowed.sinceRecord = stored.count
    /\ stored.present => stored.count <= maxAttempts
    /\ ~lastCheck.result => lastCheck.after = lastCheck.before

C30_Witness ==
    /\ ~lastCheck.result
    /\ stored = lastCheck.before
    /\ stored.count = maxAttempts
    /\ allowed.sinceRecord = maxAttempts

====
